---- MODULE Spec2Model ----
(***************************************************************************)
(* Verification model of the Splendor node's core subsystems:              *)
(*   - the GPU batch processor (common/gpu/gpu_processor.go),              *)
(*   - the post-quantum seal hooks of the Clique engine                    *)
(*     (consensus/clique PQ extension),                                    *)
(*   - the x402 payment engine,                                            *)
(*   - the post-quantum consensus engine (consensus/pqconsensus),          *)
(* and of the library functions they rest on (TLV codec, ML-DSA wrapper,   *)
(* batch packing), called on their own.                                    *)
(* Each subsystem has its own variables and its own specification.         *)
(***************************************************************************)
EXTENDS Integers, Sequences, FiniteSets, Bags, TLC

VARIABLES
    \* ---- GPU processor (GPUProcessor struct) ----
    gpuType,      \* p.gpuType, fixed by NewGPUProcessor
    pool,         \* p.hashPool / p.signaturePool / p.txPool: queued batch ids per kind
    submitted,    \* number of non-empty batches accepted so far, per kind
    calls,        \* per kind, per accepted batch id: number of callback invocations
    worker,       \* per kind, per worker goroutine: 0 idle, id > 0 processing, -1 returned
    cancelled,    \* p.ctx is Done
    closePc,      \* position of the Close() call: "none", "waiting", "returned"
    ret,          \* what the last Process*Batch call returned
    \* ---- post-quantum seal hooks (Clique) ----
    cfg,          \* the chain configuration's post-quantum section
    lib,          \* the liboqs build linked into the node
    header,       \* the header being sealed / verified: [Number, Extra]
    snap,         \* the snapshot at the header's parent: [Signers, Recents]
    stage,        \* "none", "fresh", "sealed", "verified"
    sealInfo,     \* what sealWithPQ did to the header
    verifyResult, \* what verifyPQSeal returned for the header
    pqSigned,     \* ML-DSA signatures produced so far: [alg, msg, sig, pk]
    \* ---- x402 payment engine ----
    balance,      \* account balances in the chain state
    registry,     \* anti-replay registry in the chain state: set of <<from, nonce>>
    precheck,     \* in-memory set of <<from, nonce>> marked by x402_settle
    mempool,      \* settlement transactions submitted and not yet executed
    now,          \* the chain's clock
    xret,         \* what the last x402 call or execution returned
    \* ---- library functions called on their own ----
    callArgs,     \* the function called and its arguments
    callOut,      \* what the call returned
    \* ---- post-quantum consensus engine (PQConsensusEngine struct) ----
    validatorKeys, \* pq.validatorKeys: per address the registered key, or NoKey
    kemKeys,       \* pq.kemKeys: the peers that have an entry
    sharedSecrets, \* pq.sharedSecrets: the peers that have an entry
    secretMem,     \* the byte slices allocated for shared secrets, per peer
    randomBeacon,  \* pq.randomBeacon
    keyCount,      \* key pairs generated so far by the library
    engineRet,     \* the last engine call and what it returned
    bundleCall     \* a VerifyPQSignatureBundle running beside the other calls:
                   \* its position and what it has read so far

varsGPU == <<gpuType, pool, submitted, calls, worker, cancelled, closePc, ret>>

varsPQ == <<cfg, lib, header, snap, stage, sealInfo, verifyResult, pqSigned>>

varsX402 == <<balance, registry, precheck, mempool, now, xret>>

varsCall == <<callArgs, callOut>>

varsEngine ==
    <<validatorKeys, kemKeys, sharedSecrets, secretMem, randomBeacon, keyCount, engineRet,
                bundleCall>>

vars == <<varsGPU, varsPQ, varsX402, varsCall, varsEngine>>

(***************************************************************************)
(* Each specification exercises one subsystem; the others stay in the      *)
(* fixed state below.                                                      *)
(***************************************************************************)

IdlePQ ==
    /\ cfg = [PostQuantum |-> FALSE, PQTBlock |-> -1, TransitionBlocks |-> 0,
              DefaultMLDSAAlgorithm |-> 0]
    /\ lib = "fips204"
    /\ header = [Number |-> 0, Extra |-> <<>>]
    /\ snap = [Signers |-> {}, Recents |-> {}]
    /\ stage = "none"
    /\ sealInfo = [result |-> "none"]
    /\ verifyResult = "none"
    /\ pqSigned = {}

IdleX402 ==
    /\ balance = <<>>
    /\ registry = {}
    /\ precheck = {}
    /\ mempool = EmptyBag
    /\ now = 0
    /\ xret = [call |-> "none", ok |-> TRUE, reason |-> "none"]

NoCall == [fn |-> "none"]

IdleCall ==
    /\ callArgs = NoCall
    /\ callOut = NoCall

\* the absent entry of pq.validatorKeys
NoKey == [Algorithm |-> "none"]

\* no VerifyPQSignatureBundle is running
NoBundleCall == [pc |-> "idle"]

\* NewPQConsensusEngine: empty maps, a beacon of 32 zero bytes
NewPQConsensusEngine ==
    /\ validatorKeys = [v \in {1, 2} |-> NoKey]
    /\ kemKeys = {}
    /\ sharedSecrets = {}
    /\ secretMem = [v \in {1, 2} |-> <<>>]
    /\ randomBeacon = <<<<0, 32>>>>
    /\ keyCount = 0
    /\ engineRet = [fn |-> "none"]
    /\ bundleCall = NoBundleCall

IdleEngine == NewPQConsensusEngine

(***************************************************************************)
(* GPU processor                                                           *)
(***************************************************************************)

Kinds == {"hash", "signature", "tx"}

GPUTypeNone == "None"
GPUTypeCUDA == "CUDA"
GPUTypeOpenCL == "OpenCL"
GPUTypes == {GPUTypeNone, GPUTypeCUDA, GPUTypeOpenCL}

\* capacity of each of the three channels
QueueCap == 100

\* worker goroutines per kind (config.HashWorkers etc.)
NumWorkers == 1
\* at most one kind is flooded; the other kinds accept at most MaxSmall batches
MaxSmall == 1
\* batches the workers dequeue in one behaviour
MaxTaken == 1

Workers == 1..NumWorkers

\* initializeGPU: CUDA is probed when preferred (or no preference), OpenCL when
\* preferred (or no preference); the first probe that reports devices wins.
initializeGPU(preferredType, cudaDevices, openclDevices) ==
    IF (preferredType = GPUTypeCUDA \/ preferredType = GPUTypeNone) /\ cudaDevices > 0
    THEN GPUTypeCUDA
    ELSE IF (preferredType = GPUTypeOpenCL \/ preferredType = GPUTypeNone) /\ openclDevices > 0
    THEN GPUTypeOpenCL
    ELSE GPUTypeNone

\* NewGPUProcessor: empty channels, context not cancelled, workers started.
NewGPUProcessor ==
    /\ \E pref \in GPUTypes, cuda \in {0, 1}, opencl \in {-1, 1} :
          gpuType = initializeGPU(pref, cuda, opencl)
    /\ pool = [k \in Kinds |-> <<>>]
    /\ submitted = [k \in Kinds |-> 0]
    /\ calls = [k \in Kinds |-> <<>>]
    /\ worker = [k \in Kinds |-> [w \in Workers |-> 0]]
    /\ cancelled = FALSE
    /\ closePc = "none"
    /\ ret = [err |-> "none", cb |-> FALSE, cbErr |-> "none"]

\* a panic that nothing recovers has ended a worker goroutine, and with it the
\* program
Crashed == \E k \in Kinds, w \in Workers : worker[k][w] = -2

Taken == LET n(k) == submitted[k] - Len(pool[k])
         IN n("hash") + n("signature") + n("tx")

\* Exploration bounds on the environment.  Every kind accepts up to MaxSmall
\* batches under every interleaving.  One kind may then receive a burst that
\* fills its channel: the burst starts from a quiet processor (nothing dequeued,
\* context live, the other kinds untouched) and, until the QueueCap-th
\* acceptance, no other goroutine takes a step.
Burst == \E k \in Kinds : submitted[k] > MaxSmall /\ submitted[k] < QueueCap

MaySubmit(k) ==
    /\ submitted[k] < QueueCap + 1
    /\ \/ /\ submitted[k] < MaxSmall
          /\ \A j \in Kinds \ {k} : submitted[j] <= MaxSmall
       \/ /\ submitted[k] >= MaxSmall
          /\ \A j \in Kinds \ {k} : submitted[j] = 0
          /\ submitted[k] = MaxSmall => (~cancelled /\ Taken = 0)

\* Process{Hashes,Signatures,Transactions}Batch with an empty batch:
\* the callback runs synchronously with (nil, nil) and nil is returned.
ProcessBatchEmpty(k) ==
    /\ ~Crashed
    /\ ret' = [err |-> "nil", cb |-> TRUE, cbErr |-> "nil"]
    /\ UNCHANGED <<gpuType, pool, submitted, calls, worker, cancelled, closePc>>
    /\ UNCHANGED <<varsPQ, varsX402, varsCall, varsEngine>>

\* ProcessBatchEnqueue with the capacity test off by one
ProcessBatchEnqueue_OffByOne(k) ==
    /\ ~Crashed
    /\ MaySubmit(k)
    /\ Len(pool[k]) <= QueueCap
    /\ submitted' = [submitted EXCEPT ![k] = @ + 1]
    /\ pool' = [pool EXCEPT ![k] = Append(@, submitted[k] + 1)]
    /\ calls' = [calls EXCEPT ![k] = Append(@, 0)]
    /\ ret' = [err |-> "nil", cb |-> FALSE, cbErr |-> "none"]
    /\ UNCHANGED <<gpuType, worker, cancelled, closePc>>
    /\ UNCHANGED <<varsPQ, varsX402, varsCall, varsEngine>>

\* select, case p.<k>Pool <- batch: ready whenever the buffer has room.
ProcessBatchEnqueue(k) ==
    /\ ~Crashed
    /\ MaySubmit(k)
    /\ Len(pool[k]) < QueueCap
    /\ submitted' = [submitted EXCEPT ![k] = @ + 1]
    /\ pool' = [pool EXCEPT ![k] = Append(@, submitted[k] + 1)]
    /\ calls' = [calls EXCEPT ![k] = Append(@, 0)]
    /\ ret' = [err |-> "nil", cb |-> FALSE, cbErr |-> "none"]
    /\ UNCHANGED <<gpuType, worker, cancelled, closePc>>
    /\ UNCHANGED <<varsPQ, varsX402, varsCall, varsEngine>>

\* select, case <-p.ctx.Done(): ready once the context is cancelled.
ProcessBatchCtxDone(k) ==
    /\ ~Crashed
    /\ cancelled
    /\ ret' = [err |-> "context canceled", cb |-> FALSE, cbErr |-> "none"]
    /\ UNCHANGED <<gpuType, pool, submitted, calls, worker, cancelled, closePc>>
    /\ UNCHANGED <<varsPQ, varsX402, varsCall, varsEngine>>

\* select, default: taken only when no other case is ready.
ProcessBatchQueueFull(k) ==
    /\ ~Crashed
    /\ Len(pool[k]) >= QueueCap
    /\ ~cancelled
    /\ ret' = [err |-> "queue full", cb |-> FALSE, cbErr |-> "none"]
    /\ UNCHANGED <<gpuType, pool, submitted, calls, worker, cancelled, closePc>>
    /\ UNCHANGED <<varsPQ, varsX402, varsCall, varsEngine>>

ProcessBatch(k) ==
    \/ ProcessBatchEmpty(k)
    \/ ProcessBatchEnqueue(k)
    \/ ProcessBatchCtxDone(k)
    \/ ProcessBatchQueueFull(k)

\* worker select, case batch := <-p.<k>Pool
WorkerTake(k, w) ==
    /\ ~Crashed
    /\ ~Burst
    /\ worker[k][w] = 0
    /\ pool[k] # <<>>
    /\ Taken < MaxTaken
    /\ worker' = [worker EXCEPT ![k][w] = Head(pool[k])]
    /\ pool' = [pool EXCEPT ![k] = Tail(@)]
    /\ UNCHANGED <<gpuType, submitted, calls, cancelled, closePc, ret>>
    /\ UNCHANGED <<varsPQ, varsX402, varsCall, varsEngine>>

\* worker select, case <-p.ctx.Done(): return
WorkerExit(k, w) ==
    /\ ~Crashed
    /\ ~Burst
    /\ worker[k][w] = 0
    /\ cancelled
    /\ worker' = [worker EXCEPT ![k][w] = -1]
    /\ UNCHANGED <<gpuType, pool, submitted, calls, cancelled, closePc, ret>>
    /\ UNCHANGED <<varsPQ, varsX402, varsCall, varsEngine>>

\* Outcomes of processing one batch.
\*   "cpu"       gpuType None: process*CPU, one callback
\*   "gpu"       entry point returned 0: one callback
\*   "nonzero"   entry point returned non-zero: process*CPU, one callback
\*   "panic"     panic while packing/calling/unpacking: recover, process*CPU
\*   "cbpanic"   the callback invoked by process*GPU panics: the deferred
\*               recover runs process*CPU, which invokes the callback again
\*   "cpupanic"  process*CPU panics with no recover in effect: it was called
\*               by the worker (gpuType None) or by the deferred function of
\*               process*GPU after a first panic.  The panic is the
\*               callback's, the one thing all three kinds can panic in.
Outcomes(t) ==
    IF t = GPUTypeNone THEN {"cpu", "cpupanic"}
    ELSE {"gpu", "nonzero", "panic", "cbpanic", "cpupanic"}

CallbackCount(outcome) == IF outcome = "cbpanic" THEN 2 ELSE 1

\* process*GPU / process*CPU for the batch the worker holds
WorkerRun(k, w) ==
    /\ ~Crashed
    /\ ~Burst
    /\ worker[k][w] > 0
    /\ \E o \in Outcomes(gpuType) :
          /\ calls' = [calls EXCEPT ![k][worker[k][w]] = @ + CallbackCount(o)]
          /\ worker' = [worker EXCEPT ![k][w] = IF o = "cpupanic" THEN -2 ELSE 0]
    /\ UNCHANGED <<gpuType, pool, submitted, cancelled, closePc, ret>>
    /\ UNCHANGED <<varsPQ, varsX402, varsCall, varsEngine>>

\* Close: p.cancel()
Close ==
    /\ ~Crashed
    /\ ~Burst
    /\ closePc = "none"
    /\ cancelled' = TRUE
    /\ closePc' = "waiting"
    /\ UNCHANGED <<gpuType, pool, submitted, calls, worker, ret>>
    /\ UNCHANGED <<varsPQ, varsX402, varsCall, varsEngine>>

\* Close: p.wg.Wait() returns once every worker has returned
CloseReturn ==
    /\ ~Crashed
    /\ ~Burst
    /\ closePc = "waiting"
    /\ \A k \in Kinds, w \in Workers : worker[k][w] = -1
    /\ closePc' = "returned"
    /\ UNCHANGED <<gpuType, pool, submitted, calls, worker, cancelled, ret>>
    /\ UNCHANGED <<varsPQ, varsX402, varsCall, varsEngine>>

NextGPU ==
    \/ \E k \in Kinds : ProcessBatch(k)
    \/ \E k \in Kinds, w \in Workers : WorkerTake(k, w)
    \/ \E k \in Kinds, w \in Workers : WorkerExit(k, w)
    \/ \E k \in Kinds, w \in Workers : WorkerRun(k, w)
    \/ Close
    \/ CloseReturn

InitGPU == NewGPUProcessor /\ IdlePQ /\ IdleX402 /\ IdleCall /\ IdleEngine

SpecGPU == InitGPU /\ [][NextGPU]_vars

(***************************************************************************)
(* Byte strings.  A byte string is kept run-length encoded: a sequence of   *)
(* runs <<byte, count>> with count > 0 and adjacent runs of different       *)
(* bytes, so that equal strings have equal representations.                 *)
(***************************************************************************)

Bytes(b, n) == IF n > 0 THEN << <<b, n>> >> ELSE <<>>

RECURSIVE BLen(_)
BLen(s) == IF s = <<>> THEN 0 ELSE s[1][2] + BLen(Tail(s))

BCat(s, t) ==
    IF s = <<>> THEN t
    ELSE IF t = <<>> THEN s
    ELSE IF s[Len(s)][1] = t[1][1]
         THEN SubSeq(s, 1, Len(s) - 1) \o << <<t[1][1], s[Len(s)][2] + t[1][2]>> >> \o Tail(t)
         ELSE s \o t

RECURSIVE BTake(_, _)
BTake(s, n) ==
    IF n <= 0 \/ s = <<>> THEN <<>>
    ELSE IF s[1][2] >= n THEN << <<s[1][1], n>> >>
    ELSE <<s[1]>> \o BTake(Tail(s), n - s[1][2])

RECURSIVE BDrop(_, _)
BDrop(s, n) ==
    IF n <= 0 \/ s = <<>> THEN s
    ELSE IF s[1][2] > n THEN << <<s[1][1], s[1][2] - n>> >> \o Tail(s)
    ELSE BDrop(Tail(s), n - s[1][2])

\* Go's s[lo:hi]
BSlice(s, lo, hi) == BTake(BDrop(s, lo), hi - lo)

\* Go's s[i]
BAt(s, i) == BDrop(s, i)[1][1]

\* binary.BigEndian.PutUint32(uint32(v)); every length the model encodes is a
\* slice length below 2^31, so the conversion to uint32 keeps the value
PutUint32(v) ==
    LET u == v
    IN BCat(BCat(Bytes(u \div 16777216, 1), Bytes((u \div 65536) % 256, 1)),
            BCat(Bytes((u \div 256) % 256, 1), Bytes(u % 256, 1)))

\* binary.BigEndian.Uint32 of the four bytes at offset off.  TLC integers are
\* 32-bit signed, so a top byte above 127 is not representable; the model's
\* inputs keep declared lengths below 2^31.
Uint32(s, off) ==
    BAt(s, off) * 16777216 + BAt(s, off + 1) * 65536 + BAt(s, off + 2) * 256 + BAt(s, off + 3)

(***************************************************************************)
(* Post-quantum seal hooks of the Clique engine                             *)
(***************************************************************************)

extraVanity == 32
extraSeal == 65
AddressLength == 20
epochLength == 30000

PQSigTypeMLDSA65 == 1
PQSigTypeMLDSA44 == 2
PQSigTypeMLDSA87 == 3
PQSigTLVHeaderSize == 9

MLDSA44 == "ML-DSA-44"
MLDSA65 == "ML-DSA-65"
MLDSA87 == "ML-DSA-87"

PQTTransitionBlocks == 7200

MLDSA44SignatureSize == 2420
MLDSA44PublicKeySize == 1312
MLDSA65SignatureSize == 3309
MLDSA65PublicKeySize == 1952
MLDSA87SignatureSize == 4627
MLDSA87PublicKeySize == 2592

MaxValidators == 50
MaxExtraDataSizePQ == 32 + MaxValidators * 20 + MaxValidators * MLDSA65SignatureSize + 1024

\* params.GetMLDSASizes: the static table used to reserve room in the extra field
GetMLDSASizes(algorithm) ==
    CASE algorithm = MLDSA44 -> <<MLDSA44SignatureSize, MLDSA44PublicKeySize>>
      [] algorithm = MLDSA65 -> <<MLDSA65SignatureSize, MLDSA65PublicKeySize>>
      [] algorithm = MLDSA87 -> <<MLDSA87SignatureSize, MLDSA87PublicKeySize>>
      [] OTHER -> <<MLDSA65SignatureSize, MLDSA65PublicKeySize>>

\* mldsa.MLDSAParams: the static table of the crypto package
MLDSAParams ==
    [a \in {MLDSA44, MLDSA65, MLDSA87} |->
        CASE a = MLDSA44 -> [PublicKeySize |-> 1312, SignatureSize |-> 2420]
          [] a = MLDSA65 -> [PublicKeySize |-> 1952, SignatureSize |-> 3293]
          [] a = MLDSA87 -> [PublicKeySize |-> 2592, SignatureSize |-> 4595]]

\* The linked liboqs build decides the runtime sizes (sig->length_signature,
\* sig->length_public_key): a FIPS-204 build reports 3309/4627 for variants
\* 65/87, a Dilithium round-3 build reports 3293/4595.
LibBuilds == {"fips204", "dilithium"}

LibLengths(build, algorithm) ==
    IF build = "fips204"
    THEN GetMLDSASizes(algorithm)
    ELSE <<MLDSAParams[algorithm].SignatureSize, MLDSAParams[algorithm].PublicKeySize>>

\* ChainConfig.GetDefaultMLDSAAlgorithm
GetDefaultMLDSAAlgorithm(config) ==
    IF ~config.PostQuantum THEN MLDSA65
    ELSE CASE config.DefaultMLDSAAlgorithm = 44 -> MLDSA44
           [] config.DefaultMLDSAAlgorithm = 65 -> MLDSA65
           [] config.DefaultMLDSAAlgorithm = 87 -> MLDSA87
           [] OTHER -> MLDSA65

NoBlock == -1

\* Clique.isPQTFork
isPQTFork(number, config) ==
    IF ~config.PostQuantum \/ config.PQTBlock = NoBlock
    THEN FALSE
    ELSE number >= config.PQTBlock

\* enforceBlock as isPQTTransition / isPQTEnforced compute it
enforceBlock(config) ==
    config.PQTBlock +
        (IF config.TransitionBlocks = 0 THEN PQTTransitionBlocks ELSE config.TransitionBlocks)

\* Clique.isPQTTransition
isPQTTransition(number, config) ==
    IF ~isPQTFork(number, config) THEN FALSE ELSE number < enforceBlock(config)

\* Clique.isPQTEnforced with the comparison made strict
isPQTEnforced_Strict(number, config) ==
    IF ~isPQTFork(number, config) THEN FALSE ELSE number > enforceBlock(config)

\* Clique.isPQTEnforced
isPQTEnforced(number, config) ==
    IF ~isPQTFork(number, config) THEN FALSE ELSE number >= enforceBlock(config)

\* Encode writing the public-key length before the signature length
Encode_PkLenFirst(pq) ==
    BCat(BCat(Bytes(pq.Type, 1),
              BCat(PutUint32(BLen(pq.PublicKey)), PutUint32(BLen(pq.Signature)))),
         BCat(pq.Signature, pq.PublicKey))

\* PQSignature.Encode
Encode(pq) ==
    BCat(BCat(Bytes(pq.Type, 1),
              BCat(PutUint32(BLen(pq.Signature)), PutUint32(BLen(pq.PublicKey)))),
         BCat(pq.Signature, pq.PublicKey))

NoPQSignature == [err |-> TRUE]

\* DecodePQSignature
DecodePQSignature(data) ==
    IF BLen(data) < PQSigTLVHeaderSize THEN NoPQSignature
    ELSE LET sigType == BAt(data, 0)
             sigLen == Uint32(data, 1)
             pkLen == Uint32(data, 5)
             expectedLen == PQSigTLVHeaderSize + sigLen + pkLen
         IN IF BLen(data) < expectedLen THEN NoPQSignature
            ELSE [err |-> FALSE,
                  Type |-> sigType,
                  Signature |-> BSlice(data, 9, 9 + sigLen),
                  PublicKey |-> BSlice(data, 9 + sigLen, 9 + sigLen + pkLen)]

\* PQSignature.GetMLDSAAlgorithm
GetMLDSAAlgorithm(pq) ==
    CASE pq.Type = PQSigTypeMLDSA44 -> MLDSA44
      [] pq.Type = PQSigTypeMLDSA65 -> MLDSA65
      [] pq.Type = PQSigTypeMLDSA87 -> MLDSA87
      [] OTHER -> MLDSA65

\* extractPQSignature
extractPQSignature(h) ==
    IF BLen(h.Extra) < extraVanity + extraSeal THEN NoPQSignature
    ELSE LET ecdsaEnd == BLen(h.Extra) - extraSeal
         IN IF ecdsaEnd <= extraVanity THEN NoPQSignature
            ELSE LET pqEnd == ecdsaEnd
                     checkpoint == (h.Number % epochLength) = 0
                     signersBytes == pqEnd - extraVanity
                     pqStart == IF checkpoint THEN extraVanity + signersBytes ELSE extraVanity
                 IN IF checkpoint /\ signersBytes % AddressLength # 0 THEN NoPQSignature
                    ELSE IF pqStart >= pqEnd THEN NoPQSignature
                    ELSE DecodePQSignature(BSlice(h.Extra, pqStart, pqEnd))

Validators == {1, 2, 3}

\* block numbers of the headers the model builds: around the fork block, around
\* the enforce block, and checkpoint blocks (multiples of epochLength)
Numbers == {29998, 29999, 30000, 30001, 30002, 37199, 37200, 60000}

\* chain configurations: no post-quantum section, no fork block, or a fork at
\* PQTBlock with TransitionBlocks (0 = unset) and a default algorithm (0 = unset)
Configs ==
    {[PostQuantum |-> FALSE, PQTBlock |-> NoBlock, TransitionBlocks |-> 0,
      DefaultMLDSAAlgorithm |-> 0],
     [PostQuantum |-> TRUE, PQTBlock |-> NoBlock, TransitionBlocks |-> 0,
      DefaultMLDSAAlgorithm |-> 0]}
    \cup
    [PostQuantum : {TRUE}, PQTBlock : {29999, 30000}, TransitionBlocks : {0, 2},
     DefaultMLDSAAlgorithm : {0, 44, 65, 87}]

\* the seal hash of the base consensus: the hash over the header's contents
\* without the signature seals, i.e. without the PQ seal and the ECDSA seal.
\* The hash is idealised as collision free: it is the hashed content itself.
SealHash(h) ==
    LET signersLen == IF h.Number % epochLength = 0
                      THEN AddressLength * Cardinality(snap.Signers) ELSE 0
        content == extraVanity + signersLen
        unsealed == BLen(h.Extra) - extraSeal
    IN [Number |-> h.Number,
        Extra |-> BTake(h.Extra, IF content < unsealed THEN content ELSE unsealed)]

\* ecrecover of the base consensus: the address that produced the ECDSA seal
\* in the last extraSeal bytes (0 when none can be recovered)
ecrecover(h) ==
    LET seal == BDrop(h.Extra, BLen(h.Extra) - extraSeal)
    IN IF BLen(h.Extra) >= extraSeal /\ Len(seal) = 1 /\ seal[1][1] \in Validators
       THEN seal[1][1] ELSE 0

\* len(message): a message is either raw bytes, [Raw |-> bytes], or the 32
\* bytes of a seal hash, which stand as the content they hash
MessageLen(message) ==
    IF DOMAIN message = {"Raw"} THEN BLen(message.Raw) ELSE 32

\* VerifySignature testing the public key before the signature
VerifySignature_KeyBeforeSignature(algorithm, message, signature, publicKey) ==
    IF MessageLen(message) = 0 THEN "empty message"
    ELSE IF publicKey = <<>> THEN "ErrInvalidPublicKey"
    ELSE IF signature = <<>> THEN "ErrInvalidSignature"
    ELSE IF algorithm \notin DOMAIN MLDSAParams THEN "ErrInvalidAlgorithm"
    ELSE IF BLen(signature) # LibLengths(lib, algorithm)[1]
            \/ BLen(publicKey) # LibLengths(lib, algorithm)[2] THEN "ErrInvalidLength"
    ELSE IF [alg |-> algorithm, msg |-> message, sig |-> signature, pk |-> publicKey]
                \in pqSigned THEN "ok"
    ELSE "ErrVerificationFailed"

\* mldsa.VerifySignature (cgo build).  OQS_SIG_verify is idealised: it accepts
\* exactly the signatures the key's owner produced for that message.
VerifySignature(algorithm, message, signature, publicKey) ==
    IF MessageLen(message) = 0 THEN "empty message"
    ELSE IF signature = <<>> THEN "ErrInvalidSignature"
    ELSE IF publicKey = <<>> THEN "ErrInvalidPublicKey"
    ELSE IF algorithm \notin DOMAIN MLDSAParams THEN "ErrInvalidAlgorithm"
    ELSE IF BLen(signature) # LibLengths(lib, algorithm)[1]
            \/ BLen(publicKey) # LibLengths(lib, algorithm)[2] THEN "ErrInvalidLength"
    ELSE IF [alg |-> algorithm, msg |-> message, sig |-> signature, pk |-> publicKey]
                \in pqSigned THEN "ok"
    ELSE "ErrVerificationFailed"

\* verifyPQSignature
verifyPQSignature(h, pqSig) ==
    VerifySignature(GetMLDSAAlgorithm(pqSig), SealHash(h), pqSig.Signature, pqSig.PublicKey)

\* recoverPQSigner: keccak256(pubkey)[12:]; a validator's key is filled with
\* the validator's id, which stands for the derived address (0: no validator)
recoverPQSigner(pqSig) ==
    IF pqSig.PublicKey = <<>> THEN 0 ELSE pqSig.PublicKey[1][1]

\* number - limit in uint64: a difference below zero wraps to 2^64 - v, which
\* is kept as [wrapped |-> TRUE, v |-> limit - number]
SubUint64(a, b) ==
    IF a >= b THEN [wrapped |-> FALSE, v |-> a - b]
    ELSE [wrapped |-> TRUE, v |-> b - a]

\* seen > d in uint64, for a block number seen and a difference d:
\* 2^64 - v exceeds every block number of the model
GtUint64(seen, d) == IF d.wrapped THEN FALSE ELSE seen > d.v

\* verifyPQSeal; sn is the snapshot at the parent
verifyPQSeal(h, config, sn) ==
    LET number == h.Number
        pqSig == extractPQSignature(h)
        pqSigner == recoverPQSigner(pqSig)
        limit == Cardinality(sn.Signers) \div 2 + 1
    IN IF ~isPQTFork(number, config) THEN "ok"
       ELSE IF pqSig.err
            THEN IF isPQTEnforced(number, config)
                 THEN "PQ signature required but not found"
                 ELSE "ok"
       ELSE IF verifyPQSignature(h, pqSig) # "ok" THEN "PQ signature verification failed"
       ELSE IF isPQTTransition(number, config) /\ ecrecover(h) = 0
            THEN "failed to recover ECDSA signer"
       ELSE IF isPQTTransition(number, config) /\ pqSigner # ecrecover(h)
            THEN "PQ signer does not match ECDSA signer"
       ELSE IF pqSigner \notin sn.Signers THEN "errUnauthorizedSigner"
       ELSE IF \E r \in sn.Recents :
                  r[2] = pqSigner /\ GtUint64(r[1], SubUint64(number, limit))
            THEN "errRecentlySigned"
       ELSE "ok"

\* preparePQExtraData without the size limit
preparePQExtraData_NoLimit(h, config) ==
    LET sizes == GetMLDSASizes(GetDefaultMLDSAAlgorithm(config))
        pqSigSize == PQSigTLVHeaderSize + sizes[1] + sizes[2]
        currentSize == BLen(h.Extra)
    IN IF ~isPQTFork(h.Number, config) THEN [err |-> "none", Extra |-> h.Extra]
       ELSE [err |-> "none",
             Extra |-> BCat(BCat(BTake(h.Extra, currentSize - extraSeal),
                                 Bytes(0, pqSigSize)),
                            BDrop(h.Extra, currentSize - extraSeal))]

\* preparePQExtraData: [err, Extra]
preparePQExtraData(h, config) ==
    LET sizes == GetMLDSASizes(GetDefaultMLDSAAlgorithm(config))
        pqSigSize == PQSigTLVHeaderSize + sizes[1] + sizes[2]
        currentSize == BLen(h.Extra)
        requiredSize == currentSize + pqSigSize
    IN IF ~isPQTFork(h.Number, config) THEN [err |-> "none", Extra |-> h.Extra]
       ELSE IF requiredSize > MaxExtraDataSizePQ
            THEN [err |-> "extraData would exceed maximum size", Extra |-> h.Extra]
       ELSE [err |-> "none",
             Extra |-> BCat(BCat(BTake(h.Extra, currentSize - extraSeal),
                                 Bytes(0, pqSigSize)),
                            BDrop(h.Extra, currentSize - extraSeal))]

\* sealPQSignature writing the TLV right after the vanity, whatever precedes
\* the reserved room
sealPQSignature_AtVanity(extra, pqSig) ==
    LET pqData == Encode(pqSig)
        ecdsaSeal == BDrop(extra, BLen(extra) - extraSeal)
        insertPos == extraVanity
        room == BLen(extra) - extraSeal - insertPos - BLen(pqData)
    IN IF BLen(extra) < extraSeal
       THEN [err |-> "header extraData too short for sealing", Extra |-> extra]
       ELSE IF room < 0
            THEN [err |-> "not enough space for PQ signature", Extra |-> extra]
       ELSE [err |-> "none",
             Extra |-> BCat(BCat(BTake(extra, insertPos), pqData),
                            BCat(Bytes(0, room), ecdsaSeal))]

\* sealPQSignature writing the ECDSA seal before the TLV
sealPQSignature_SealBeforeTLV(extra, pqSig) ==
    LET pqData == Encode(pqSig)
        ecdsaSeal == BDrop(extra, BLen(extra) - extraSeal)
        insertPos == BLen(extra) - extraSeal - BLen(pqData)
    IN IF BLen(extra) < extraSeal
       THEN [err |-> "header extraData too short for sealing", Extra |-> extra]
       ELSE IF insertPos < extraVanity
            THEN [err |-> "not enough space for PQ signature", Extra |-> extra]
       ELSE [err |-> "none",
             Extra |-> BCat(BCat(BTake(extra, insertPos), ecdsaSeal), pqData)]

\* sealPQSignature: [err, Extra]
sealPQSignature(extra, pqSig) ==
    LET pqData == Encode(pqSig)
        ecdsaSeal == BDrop(extra, BLen(extra) - extraSeal)
        insertPos == BLen(extra) - extraSeal - BLen(pqData)
    IN IF BLen(extra) < extraSeal
       THEN [err |-> "header extraData too short for sealing", Extra |-> extra]
       ELSE IF insertPos < extraVanity
            THEN [err |-> "not enough space for PQ signature", Extra |-> extra]
       ELSE [err |-> "none",
             Extra |-> BCat(BCat(BTake(extra, insertPos), pqData), ecdsaSeal)]

\* the local signer's PQSignerFn: validator v signs with the linked library;
\* signature and key have the library's runtime sizes
pqSignFn(v, algorithm) ==
    [Signature |-> Bytes(128 + v, LibLengths(lib, algorithm)[1]),
     PublicKey |-> Bytes(v, LibLengths(lib, algorithm)[2])]

\* the PQSignature sealWithPQ builds from the signer's answer
SealedPQSignature(v, config) ==
    LET algorithm == GetDefaultMLDSAAlgorithm(config)
        sigType == CASE algorithm = MLDSA44 -> PQSigTypeMLDSA44
                     [] algorithm = MLDSA65 -> PQSigTypeMLDSA65
                     [] algorithm = MLDSA87 -> PQSigTypeMLDSA87
                     [] OTHER -> PQSigTypeMLDSA65
    IN [err |-> FALSE, Type |-> sigType,
        Signature |-> pqSignFn(v, algorithm).Signature,
        PublicKey |-> pqSignFn(v, algorithm).PublicKey]

\* sealWithPQ for the local validator v: [err, Extra, hash, pqSig].
\* header.Extra is replaced by preparePQExtraData before the signer is asked,
\* and once more by sealPQSignature.
sealWithPQ(h, config, v) ==
    LET prep == preparePQExtraData(h, config)
        prepared == [h EXCEPT !.Extra = prep.Extra]
        sealHash == SealHash(prepared)
        pqSig == SealedPQSignature(v, config)
        sealed == sealPQSignature(prepared.Extra, pqSig)
    IN IF ~isPQTFork(h.Number, config)
       THEN [err |-> "none", Extra |-> h.Extra, signed |-> FALSE,
             hash |-> SealHash(h), pqSig |-> NoPQSignature]
       ELSE IF prep.err # "none"
            THEN [err |-> prep.err, Extra |-> h.Extra, signed |-> FALSE,
                  hash |-> SealHash(h), pqSig |-> NoPQSignature]
       ELSE [err |-> sealed.err, Extra |-> sealed.Extra, signed |-> TRUE,
             hash |-> sealHash, pqSig |-> pqSig]

IdleGPU ==
    /\ gpuType = GPUTypeNone
    /\ pool = [k \in Kinds |-> <<>>]
    /\ submitted = [k \in Kinds |-> 0]
    /\ calls = [k \in Kinds |-> <<>>]
    /\ worker = [k \in Kinds |-> [w \in Workers |-> 0]]
    /\ cancelled = FALSE
    /\ closePc = "none"
    /\ ret = [err |-> "none", cb |-> FALSE, cbErr |-> "none"]

NoSeal ==
    [result |-> "none", signer |-> 0, base |-> [Number |-> -1, Extra |-> <<>>],
     hash |-> [Number |-> -1, Extra |-> <<>>], pqSig |-> NoPQSignature]

\* shapes of the extra field a header arrives with, before PQ sealing:
\* "normal": vanity, signer list on checkpoint blocks, ECDSA seal;
\* "short": shorter than vanity plus seal; "huge": close to MaxExtraDataSizePQ
Shapes == {"normal", "short", "huge"}

HugePadding == 167400

HeaderExtra(n, shape, vanityByte, ecdsaSigner, signers) ==
    LET list == IF n % epochLength = 0
                THEN Bytes(7, AddressLength * Cardinality(signers)) ELSE <<>>
        seal == Bytes(ecdsaSigner, extraSeal)
    IN CASE shape = "normal" -> BCat(BCat(Bytes(vanityByte, extraVanity), list), seal)
         [] shape = "short" -> seal
         [] shape = "huge" ->
              BCat(BCat(Bytes(vanityByte, extraVanity), BCat(list, Bytes(5, HugePadding))), seal)

\* snapshots at the parent of block n: validators 1 and 2 are authorised, and
\* validator 1 has or has not signed block n - 1
Snapshots(n) ==
    {[Signers |-> {1, 2}, Recents |-> {}],
     [Signers |-> {1, 2}, Recents |-> {<<n - 1, 1>>}]}

\* a header for block n arrives, ECDSA-sealed by ecdsaSigner, together with
\* the snapshot at its parent
NewHeader(n, shape, vanityByte, ecdsaSigner, sn) ==
    /\ stage = "none"
    /\ snap' = sn
    /\ header' = [Number |-> n,
                  Extra |-> HeaderExtra(n, shape, vanityByte, ecdsaSigner, sn.Signers)]
    /\ stage' = "fresh"
    /\ sealInfo' = NoSeal
    /\ verifyResult' = "none"
    /\ pqSigned' = {}
    /\ UNCHANGED <<cfg, lib>>
    /\ UNCHANGED <<varsGPU, varsX402, varsCall, varsEngine>>

\* the local validator v runs sealWithPQ on the header it is producing; a
\* header under production always has its vanity and its seal
SealWithPQ(v) ==
    /\ stage = "fresh"
    /\ BLen(header.Extra) >= extraVanity + extraSeal
    /\ LET r == sealWithPQ(header, cfg, v)
       IN /\ header' = [header EXCEPT !.Extra = r.Extra]
          /\ sealInfo' = [result |-> IF ~r.signed /\ r.err = "none" THEN "prefork"
                                     ELSE IF r.err = "none" THEN "ok" ELSE r.err,
                          signer |-> v, base |-> SealHash(header),
                          hash |-> r.hash, pqSig |-> r.pqSig]
          /\ pqSigned' = IF r.signed
                         THEN {[alg |-> GetDefaultMLDSAAlgorithm(cfg), msg |-> r.hash,
                                sig |-> r.pqSig.Signature, pk |-> r.pqSig.PublicKey]}
                         ELSE {}
    /\ stage' = "sealed"
    /\ UNCHANGED <<cfg, lib, snap, verifyResult>>
    /\ UNCHANGED <<varsGPU, varsX402, varsCall, varsEngine>>

\* a node runs verifyPQSeal on the header
VerifyPQSeal ==
    /\ stage \in {"fresh", "sealed"}
    /\ verifyResult' = verifyPQSeal(header, cfg, snap)
    /\ stage' = "verified"
    /\ UNCHANGED <<cfg, lib, header, snap, sealInfo, pqSigned>>
    /\ UNCHANGED <<varsGPU, varsX402, varsCall, varsEngine>>

InitPQ ==
    /\ cfg \in Configs
    /\ lib \in LibBuilds
    /\ header = [Number |-> 0, Extra |-> <<>>]
    /\ snap = [Signers |-> {}, Recents |-> {}]
    /\ stage = "none"
    /\ sealInfo = NoSeal
    /\ verifyResult = "none"
    /\ pqSigned = {}
    /\ IdleGPU
    /\ IdleX402
    /\ IdleEngine
    /\ IdleCall

NextPQ ==
    \/ \E n \in Numbers, shape \in Shapes, vanityByte \in {0, 9},
          ecdsaSigner \in Validators :
            \E sn \in Snapshots(n) : NewHeader(n, shape, vanityByte, ecdsaSigner, sn)
    \/ \E v \in Validators : SealWithPQ(v)
    \/ VerifyPQSeal

SpecPQ == InitPQ /\ [][NextPQ]_vars

(***************************************************************************)
(* Headers built by somebody else than the local sealer: forged PQ seals,  *)
(* chains whose fork is at the first blocks, larger signer sets            *)
(***************************************************************************)

\* a header arrives whose PQ seal has the layout sealWithPQ produces with the
\* public key of validator v, but whose signature bytes were not made with
\* the secret key of v: the library has no signature on record for it
ForgePQSeal(v) ==
    /\ stage = "fresh"
    /\ BLen(header.Extra) >= extraVanity + extraSeal
    /\ isPQTFork(header.Number, cfg)
    /\ LET r == sealWithPQ(header, cfg, v)
       IN /\ r.err = "none"
          /\ header' = [header EXCEPT !.Extra = r.Extra]
          /\ sealInfo' = [result |-> "forged", signer |-> v, base |-> SealHash(header),
                          hash |-> r.hash, pqSig |-> r.pqSig]
    /\ pqSigned' = {}
    /\ stage' = "sealed"
    /\ UNCHANGED <<cfg, lib, snap, verifyResult>>
    /\ UNCHANGED <<varsGPU, varsX402, varsCall, varsEngine>>

\* a header arrives that carries, between the signer list and the ECDSA seal,
\* a TLV of the configured variant with the public key of validator v and a
\* signature of 100 bytes: lengths that match no variant
ForgeShortSeal(v) ==
    /\ stage = "fresh"
    /\ BLen(header.Extra) >= extraVanity + extraSeal
    /\ isPQTFork(header.Number, cfg)
    /\ LET pqSig == [SealedPQSignature(v, cfg) EXCEPT !.Signature = Bytes(128 + v, 100)]
           at == BLen(header.Extra) - extraSeal
       IN /\ header' = [header EXCEPT !.Extra =
                           BCat(BCat(BTake(header.Extra, at), Encode(pqSig)),
                                BDrop(header.Extra, at))]
          /\ sealInfo' = [result |-> "forged", signer |-> v, base |-> SealHash(header),
                          hash |-> SealHash(header), pqSig |-> pqSig]
    /\ pqSigned' = {}
    /\ stage' = "sealed"
    /\ UNCHANGED <<cfg, lib, snap, verifyResult>>
    /\ UNCHANGED <<varsGPU, varsX402, varsCall, varsEngine>>

\* block numbers right after genesis, and around the first checkpoint
LowNumbers == {2, 3, 30000, 30001}

\* the fork at block 2 or at the first checkpoint, transition of the default
\* length or of one block
LowConfigs ==
    [PostQuantum : {TRUE}, PQTBlock : {2, 30000}, TransitionBlocks : {0, 1},
     DefaultMLDSAAlgorithm : {65}]

\* snapshots at the parent of block n (n >= 2): as above, or four authorised
\* validators of which validator 1 signed block n - 1
LowSnapshots(n) ==
    Snapshots(n) \cup {[Signers |-> {1, 2, 3, 4}, Recents |-> {<<n - 1, 1>>}]}

InitPQLow ==
    /\ cfg \in LowConfigs
    /\ lib \in LibBuilds
    /\ header = [Number |-> 0, Extra |-> <<>>]
    /\ snap = [Signers |-> {}, Recents |-> {}]
    /\ stage = "none"
    /\ sealInfo = NoSeal
    /\ verifyResult = "none"
    /\ pqSigned = {}
    /\ IdleGPU
    /\ IdleX402
    /\ IdleEngine
    /\ IdleCall

NextPQLow ==
    \/ \E n \in LowNumbers, ecdsaSigner \in Validators :
          \E sn \in LowSnapshots(n) : NewHeader(n, "normal", 0, ecdsaSigner, sn)
    \/ \E v \in Validators : SealWithPQ(v)
    \/ \E v \in Validators : ForgePQSeal(v)
    \/ \E v \in Validators : ForgeShortSeal(v)
    \/ VerifyPQSeal

SpecPQLow == InitPQLow /\ [][NextPQLow]_vars

(***************************************************************************)
(* x402 payment engine: verify, settle (RPC) and the settlement the block  *)
(* executor applies                                                        *)
(***************************************************************************)

Accounts == {"A", "B"}
\* <<scheme, network>> of a payload: supported, wrong scheme, wrong network
Kinds402 == {<<"exact", "splendor">>, <<"upto", "splendor">>, <<"exact", "other">>}

\* the clock runs from 0 to MaxNow
MaxNow == 2
\* settlement transactions waiting in the mempool at one time
MaxPool == 2
\* a payload offers the exact price of the resource or more
Values == {1, 2}
\* the nonces payloads carry
Nonces == {1}
\* account A starts with InitialFunds, account B with nothing
InitialFunds == 1

\* validity windows <<validAfter, validBefore>> of the payloads
Windows == {<<1, MaxNow - 1>>}

\* Payment Requirements (the fields verification reads) of the one paid
\* resource: account B sells it for 1
Requirements == {[payTo |-> "B", maxAmountRequired |-> 1]}

\* Payment Payload; signer is the address the signature recovers to
Payloads ==
    {[scheme |-> sn[1], network |-> sn[2], from |-> f, to |-> t, value |-> v,
      validAfter |-> w[1], validBefore |-> w[2], nonce |-> n, signer |-> g] :
        sn \in Kinds402, f \in Accounts, t \in Accounts,
        v \in Values, w \in Windows, n \in Nonces, g \in Accounts}

\* the order of the verification rules, by the reason each reports
RuleOrder ==
    <<"UnsupportedScheme", "UnsupportedNetwork", "NotYetValid", "Expired",
      "InvalidSignature", "InsufficientBalance", "AmountMismatch",
      "RecipientMismatch", "NonceReused">>

\* verify with the balance rule and the amount rule exchanged
verify_AmountBeforeBalance(req, p, bal, used, t) ==
    IF p.scheme # "exact" THEN "UnsupportedScheme"
    ELSE IF p.network # "splendor" THEN "UnsupportedNetwork"
    ELSE IF t < p.validAfter THEN "NotYetValid"
    ELSE IF t > p.validBefore THEN "Expired"
    ELSE IF p.signer # p.from THEN "InvalidSignature"
    ELSE IF p.value # req.maxAmountRequired THEN "AmountMismatch"
    ELSE IF bal[p.from] < p.value THEN "InsufficientBalance"
    ELSE IF p.to # req.payTo THEN "RecipientMismatch"
    ELSE IF <<p.from, p.nonce>> \in used THEN "NonceReused"
    ELSE "none"

\* verify without the anti-replay rule
verify_NoNonceRule(req, p, bal, used, t) ==
    IF p.scheme # "exact" THEN "UnsupportedScheme"
    ELSE IF p.network # "splendor" THEN "UnsupportedNetwork"
    ELSE IF t < p.validAfter THEN "NotYetValid"
    ELSE IF t > p.validBefore THEN "Expired"
    ELSE IF p.signer # p.from THEN "InvalidSignature"
    ELSE IF bal[p.from] < p.value THEN "InsufficientBalance"
    ELSE IF p.value # req.maxAmountRequired THEN "AmountMismatch"
    ELSE IF p.to # req.payTo THEN "RecipientMismatch"
    ELSE "none"

\* verify(requirements, payload) in a state view (balances bal, consumed
\* pairs used, time t): the invalid reason of the first rule that fails,
\* "none" when the payload is valid
verify(req, p, bal, used, t) ==
    IF p.scheme # "exact" THEN "UnsupportedScheme"
    ELSE IF p.network # "splendor" THEN "UnsupportedNetwork"
    ELSE IF t < p.validAfter THEN "NotYetValid"
    ELSE IF t > p.validBefore THEN "Expired"
    ELSE IF p.signer # p.from THEN "InvalidSignature"
    ELSE IF bal[p.from] < p.value THEN "InsufficientBalance"
    ELSE IF p.value # req.maxAmountRequired THEN "AmountMismatch"
    ELSE IF p.to # req.payTo THEN "RecipientMismatch"
    ELSE IF <<p.from, p.nonce>> \in used THEN "NonceReused"
    ELSE "none"

\* the view of the RPC node: chain state plus the in-memory precheck set
verifyRPC(req, p) == verify(req, p, balance, registry \cup precheck, now)

\* the typed transaction carries the payload only: the executor verifies it
\* against the recipient and the amount the payload names
TxRequirements(p) == [payTo |-> p.to, maxAmountRequired |-> p.value]

\* the view of the block executor: the chain state
verifyExec(p) == verify(TxRequirements(p), p, balance, registry, now)

\* settlement that credits the recipient without debiting the payer
applySettlement_CreditOnly(bal, p) ==
    [bal EXCEPT ![p.to] = @ + p.value]

\* settlement state delta: debit from by value, credit payTo by value; no fee
applySettlement(bal, p) ==
    [bal EXCEPT ![p.from] = @ - p.value, ![p.to] = @ + p.value]

\* x402_verify(requirements, payload): verification only, no state change
x402_verify(req, p) ==
    /\ xret' = [call |-> "verify", ok |-> verifyRPC(req, p) = "none",
                reason |-> verifyRPC(req, p)]
    /\ UNCHANGED <<balance, registry, precheck, mempool, now>>
    /\ UNCHANGED <<varsGPU, varsPQ, varsCall, varsEngine>>

\* x402_settle(requirements, payload): re-runs verification, marks the nonce
\* in the in-memory precheck set, wraps the payload into a typed transaction
\* and submits it to the mempool; returns before the transaction is mined
x402_settle(req, p) ==
    /\ BagCardinality(mempool) < MaxPool
    /\ IF verifyRPC(req, p) = "none"
       THEN /\ precheck' = precheck \cup {<<p.from, p.nonce>>}
            /\ mempool' = mempool (+) SetToBag({p})
            /\ xret' = [call |-> "settle", ok |-> TRUE, reason |-> "none"]
       ELSE /\ xret' = [call |-> "settle", ok |-> FALSE, reason |-> verifyRPC(req, p)]
            /\ UNCHANGED <<precheck, mempool>>
    /\ UNCHANGED <<balance, registry, now>>
    /\ UNCHANGED <<varsGPU, varsPQ, varsCall, varsEngine>>

\* the executor recording the nonce before it has verified the payload
ExecuteTx_RecordFirst(p) ==
    /\ BagIn(p, mempool)
    /\ mempool' = mempool (-) SetToBag({p})
    /\ registry' = registry \cup {<<p.from, p.nonce>>}
    /\ IF verifyExec(p) = "none"
       THEN /\ balance' = applySettlement(balance, p)
            /\ xret' = [call |-> "execute", ok |-> TRUE, reason |-> "none"]
       ELSE /\ xret' = [call |-> "execute", ok |-> FALSE, reason |-> verifyExec(p)]
            /\ UNCHANGED balance
    /\ UNCHANGED <<precheck, now>>
    /\ UNCHANGED <<varsGPU, varsPQ, varsCall, varsEngine>>

\* the block executor runs one settlement transaction of the mempool:
\* re-verification in the executor's state view, then atomically the nonce
\* record, the debit and the credit
ExecuteTx(p) ==
    /\ BagIn(p, mempool)
    /\ mempool' = mempool (-) SetToBag({p})
    /\ IF verifyExec(p) = "none"
       THEN /\ registry' = registry \cup {<<p.from, p.nonce>>}
            /\ balance' = applySettlement(balance, p)
            /\ xret' = [call |-> "execute", ok |-> TRUE, reason |-> "none"]
       ELSE /\ xret' = [call |-> "execute", ok |-> FALSE, reason |-> verifyExec(p)]
            /\ UNCHANGED <<registry, balance>>
    /\ UNCHANGED <<precheck, now>>
    /\ UNCHANGED <<varsGPU, varsPQ, varsCall, varsEngine>>

\* time passes
Tick ==
    /\ now < MaxNow
    /\ now' = now + 1
    /\ UNCHANGED <<balance, registry, precheck, mempool, xret>>
    /\ UNCHANGED <<varsGPU, varsPQ, varsCall, varsEngine>>

\* the node restarts: the in-memory precheck set is cleared, the chain state
\* and the pending transactions (known to the network) stay
Restart ==
    /\ precheck # {}
    /\ precheck' = {}
    /\ UNCHANGED <<balance, registry, mempool, now, xret>>
    /\ UNCHANGED <<varsGPU, varsPQ, varsCall, varsEngine>>

InitX402 ==
    /\ balance = [a \in Accounts |-> IF a = "A" THEN InitialFunds ELSE 0]
    /\ registry = {}
    /\ precheck = {}
    /\ mempool = EmptyBag
    /\ now = 0
    /\ xret = [call |-> "none", ok |-> TRUE, reason |-> "none"]
    /\ IdleGPU
    /\ IdlePQ
    /\ IdleCall
    /\ IdleEngine

NextX402 ==
    \/ \E req \in Requirements, p \in Payloads : x402_verify(req, p)
    \/ \E req \in Requirements, p \in Payloads : x402_settle(req, p)
    \/ \E p \in Payloads : ExecuteTx(p)
    \/ Tick
    \/ Restart

SpecX402 == InitX402 /\ [][NextX402]_vars

(***************************************************************************)
(* The TLV codec of the PQ seal, called on its own                         *)
(***************************************************************************)

\* type bytes: none, the three ML-DSA variants, an unknown one
TLVTypes == {0, PQSigTypeMLDSA65, PQSigTypeMLDSA44, PQSigTypeMLDSA87, 255}

\* contents of the signature and public-key fields: empty, one byte, lengths
\* that need the second and the third length byte, mixed content, and the
\* ML-DSA-65 signature
TLVFields ==
    {<<>>, Bytes(0, 1), Bytes(7, 256), BCat(Bytes(1, 2), Bytes(0, 65536)),
     BCat(Bytes(0, 9), Bytes(255, 1)), Bytes(130, 3309)}

PQSeals == [err : {FALSE}, Type : TLVTypes, Signature : TLVFields, PublicKey : TLVFields]

\* pq.Encode() is called on the seal of callArgs
EncodeCall ==
    /\ callArgs.fn = "Encode"
    /\ callOut = NoCall
    /\ callOut' = [fn |-> "Encode", data |-> Encode(callArgs.pq)]
    /\ UNCHANGED callArgs
    /\ UNCHANGED <<varsGPU, varsPQ, varsX402, varsEngine>>

\* DecodePQSignature is called on the bytes Encode returned
DecodeCall ==
    /\ callOut.fn = "Encode"
    /\ callArgs' = [fn |-> "DecodePQSignature", data |-> callOut.data, pq |-> callArgs.pq]
    /\ callOut' = [fn |-> "DecodePQSignature", pq |-> DecodePQSignature(callOut.data)]
    /\ UNCHANGED <<varsGPU, varsPQ, varsX402, varsEngine>>

InitTLV ==
    /\ callArgs \in [fn : {"Encode"}, pq : PQSeals]
    /\ callOut = NoCall
    /\ IdleGPU
    /\ IdlePQ
    /\ IdleX402
    /\ IdleEngine

NextTLV == EncodeCall \/ DecodeCall

SpecTLV == InitTLV /\ [][NextTLV]_vars

(***************************************************************************)
(* The ML-DSA wrapper (crypto/mldsa), called on its own                    *)
(***************************************************************************)

\* the node built without liboqs (fallback implementation)
NotLinked == "none"

\* mapToOQSName
mapToOQSName(alg) ==
    CASE alg = MLDSA44 -> "Dilithium2"
      [] alg = MLDSA65 -> "Dilithium3"
      [] alg = MLDSA87 -> "Dilithium5"
      [] OTHER -> alg

\* OQS_SIG_new(alg_name) != NULL: the schemes the code asks liboqs for
OQSSupported(name) == name \in {"Dilithium2", "Dilithium3", "Dilithium5"}

\* the ML-DSA variant an OQS scheme implements
OQSVariant(name) ==
    CASE name = "Dilithium2" -> MLDSA44
      [] name = "Dilithium3" -> MLDSA65
      [] name = "Dilithium5" -> MLDSA87

\* MLDSAParams of the fallback build: its own copy of the static table
FallbackMLDSAParams ==
    [a \in {MLDSA44, MLDSA65, MLDSA87} |->
        CASE a = MLDSA44 -> [PublicKeySize |-> 1312, SignatureSize |-> 2420]
          [] a = MLDSA65 -> [PublicKeySize |-> 1952, SignatureSize |-> 3309]
          [] a = MLDSA87 -> [PublicKeySize |-> 2592, SignatureSize |-> 4627]]

\* the fallback VerifySignature accepting what passes its input checks
VerifySignatureFallback_Accepting(algorithm, message, signature, publicKey) ==
    IF MessageLen(message) = 0 THEN "empty message"
    ELSE IF signature = <<>> THEN "ErrInvalidSignature"
    ELSE IF publicKey = <<>> THEN "ErrInvalidPublicKey"
    ELSE IF algorithm \notin DOMAIN FallbackMLDSAParams THEN "ErrInvalidAlgorithm"
    ELSE IF BLen(signature) # FallbackMLDSAParams[algorithm].SignatureSize THEN "ErrInvalidLength"
    ELSE IF BLen(publicKey) # FallbackMLDSAParams[algorithm].PublicKeySize THEN "ErrInvalidLength"
    ELSE "ok"

\* mldsa.VerifySignature of the fallback build
VerifySignatureFallback(algorithm, message, signature, publicKey) ==
    IF MessageLen(message) = 0 THEN "empty message"
    ELSE IF signature = <<>> THEN "ErrInvalidSignature"
    ELSE IF publicKey = <<>> THEN "ErrInvalidPublicKey"
    ELSE IF algorithm \notin DOMAIN FallbackMLDSAParams THEN "ErrInvalidAlgorithm"
    ELSE IF BLen(signature) # FallbackMLDSAParams[algorithm].SignatureSize THEN "ErrInvalidLength"
    ELSE IF BLen(publicKey) # FallbackMLDSAParams[algorithm].PublicKeySize THEN "ErrInvalidLength"
    ELSE "ErrLibOQSNotAvailable"

\* mldsa.SignMessage with the secret key of validator v: [err, signature]
SignMessage(algorithm, message, v) ==
    IF lib = NotLinked THEN [err |-> "ErrLibOQSNotAvailable", signature |-> <<>>]
    ELSE IF MessageLen(message) = 0 THEN [err |-> "empty message", signature |-> <<>>]
    ELSE IF algorithm \notin DOMAIN MLDSAParams
         THEN [err |-> "ErrInvalidAlgorithm", signature |-> <<>>]
    ELSE [err |-> "none", signature |-> Bytes(128 + v, LibLengths(lib, algorithm)[1])]

\* mldsa.GenerateKeyPair for validator v: [err, publicKey]
GenerateKeyPair(algorithm, v) ==
    IF lib = NotLinked THEN [err |-> "ErrLibOQSNotAvailable", publicKey |-> <<>>]
    ELSE IF algorithm \notin DOMAIN MLDSAParams
         THEN [err |-> "ErrInvalidAlgorithm", publicKey |-> <<>>]
    ELSE [err |-> "none", publicKey |-> Bytes(v, LibLengths(lib, algorithm)[2])]

\* verify_mldsa_signature's body for one item of batch_verify_mldsa_signatures:
\* results[i] == 1
BatchItemVerified(name, message, signature, publicKey) ==
    /\ BLen(signature) = LibLengths(lib, OQSVariant(name))[1]
    /\ BLen(publicKey) = LibLengths(lib, OQSVariant(name))[2]
    /\ [alg |-> OQSVariant(name), msg |-> message, sig |-> signature, pk |-> publicKey]
           \in pqSigned

\* mldsa.BatchVerifySignatures: [err, results].  The arrays of item pointers
\* handed to C are Go memory that holds Go pointers (every non-empty item);
\* with the runtime's cgo pointer check on (cgocheck, the default) the call
\* panics, with the check off it goes through.
BatchVerifySignatures(algorithm, messages, signatures, publicKeys, cgocheck) ==
    IF lib = NotLinked THEN [err |-> "ErrLibOQSNotAvailable", results |-> <<>>]
    ELSE IF Len(messages) # Len(signatures) \/ Len(signatures) # Len(publicKeys)
         THEN [err |-> "mismatched batch sizes", results |-> <<>>]
    ELSE IF cgocheck /\ \E i \in 1..Len(messages) :
                 MessageLen(messages[i]) > 0 \/ signatures[i] # <<>> \/ publicKeys[i] # <<>>
         THEN [err |-> "panic", results |-> <<>>]
    ELSE LET name == mapToOQSName(algorithm)
         IN [err |-> "none",
             results |-> [i \in 1..Len(messages) |->
                            /\ OQSSupported(name)
                            /\ BatchItemVerified(name, messages[i], signatures[i],
                                                 publicKeys[i])]]

\* mldsa.GetMLDSALengths: [err, sigLen, pkLen]; without the library the
\* static table answers
GetMLDSALengths(algorithm) ==
    IF algorithm \notin DOMAIN MLDSAParams
    THEN [err |-> "ErrInvalidAlgorithm", sigLen |-> 0, pkLen |-> 0]
    ELSE IF lib = NotLinked
    THEN [err |-> "none", sigLen |-> FallbackMLDSAParams[algorithm].SignatureSize,
          pkLen |-> FallbackMLDSAParams[algorithm].PublicKeySize]
    ELSE [err |-> "none", sigLen |-> LibLengths(lib, algorithm)[1],
          pkLen |-> LibLengths(lib, algorithm)[2]]

\* ValidateMLDSAParams checking the signature length only
ValidateMLDSAParams_SignatureOnly(algorithm, signature, publicKey) ==
    LET l == GetMLDSALengths(algorithm)
    IN IF l.err # "none" THEN l.err
       ELSE IF BLen(signature) # l.sigLen THEN "ErrInvalidLength"
       ELSE "ok"

\* mldsa.ValidateMLDSAParams (the same text in both builds)
ValidateMLDSAParams(algorithm, signature, publicKey) ==
    LET l == GetMLDSALengths(algorithm)
    IN IF l.err # "none" THEN l.err
       ELSE IF BLen(signature) # l.sigLen THEN "ErrInvalidLength"
       ELSE IF BLen(publicKey) # l.pkLen THEN "ErrInvalidLength"
       ELSE "ok"

\* VerifySignature of the build in use
MLDSAVerify(algorithm, message, signature, publicKey) ==
    IF lib = NotLinked
    THEN VerifySignatureFallback(algorithm, message, signature, publicKey)
    ELSE VerifySignature(algorithm, message, signature, publicKey)

\* algorithm names callers pass: two variants, a name nobody knows, and the
\* name liboqs has for variant 65
AlgorithmInputs == {MLDSA44, MLDSA65, "invalid", "Dilithium3"}

\* messages: empty, "test", a 32-byte hash
MessageInputs == {[Raw |-> <<>>], [Raw |-> Bytes(116, 4)], [Raw |-> Bytes(0, 32)]}

\* the key pair in use is that of validator 1
KeyOwner == 1

\* signature buffers: empty, 100 bytes, and the sizes of variants 44 and 65
\* (runtime and static) with the content the key owner's signatures have
SignatureInputs ==
    {<<>>, Bytes(0, 100)} \cup {Bytes(128 + KeyOwner, n) : n \in {2420, 3293, 3309}}

\* public-key buffers: empty, 100 bytes, the key owner's keys
PublicKeyInputs == {<<>>, Bytes(0, 100)} \cup {Bytes(KeyOwner, n) : n \in {1312, 1952}}

MaxSigned == 1
MaxBatch == 2

\* sequences of at most MaxBatch elements of S
Arrays(S) == UNION {[1..n -> S] : n \in 0..MaxBatch}

BatchMessages == Arrays({[Raw |-> Bytes(116, 4)]})
BatchSignatures == Arrays({Bytes(0, 100), Bytes(128 + KeyOwner, 3293), Bytes(128 + KeyOwner, 3309)})
BatchPublicKeys == Arrays({Bytes(KeyOwner, 1952)})

\* a further call may follow key generation and signing
Ready == callOut.fn \in {"none", "GenerateKeyPair", "SignMessage"}

GenerateKeyPairCall(algorithm) ==
    /\ Ready
    /\ callArgs' = [fn |-> "GenerateKeyPair", algorithm |-> algorithm]
    /\ callOut' = [fn |-> "GenerateKeyPair", r |-> GenerateKeyPair(algorithm, KeyOwner)]
    /\ UNCHANGED varsPQ
    /\ UNCHANGED <<varsGPU, varsX402, varsEngine>>

\* the key owner signs a message; the library keeps no record, the model does
SignMessageCall(algorithm, message) ==
    /\ Ready
    /\ Cardinality(pqSigned) < MaxSigned
    /\ LET r == SignMessage(algorithm, message, KeyOwner)
       IN /\ callArgs' = [fn |-> "SignMessage", algorithm |-> algorithm, message |-> message]
          /\ callOut' = [fn |-> "SignMessage", r |-> r]
          /\ pqSigned' = IF r.err = "none"
                         THEN pqSigned \cup
                                {[alg |-> algorithm, msg |-> message, sig |-> r.signature,
                                  pk |-> GenerateKeyPair(algorithm, KeyOwner).publicKey]}
                         ELSE pqSigned
    /\ UNCHANGED <<cfg, lib, header, snap, stage, sealInfo, verifyResult>>
    /\ UNCHANGED <<varsGPU, varsX402, varsEngine>>

GetMLDSALengthsCall(algorithm) ==
    /\ Ready
    /\ callArgs' = [fn |-> "GetMLDSALengths", algorithm |-> algorithm]
    /\ callOut' = [fn |-> "GetMLDSALengths", r |-> GetMLDSALengths(algorithm)]
    /\ UNCHANGED varsPQ
    /\ UNCHANGED <<varsGPU, varsX402, varsEngine>>

VerifySignatureCall(algorithm, message, signature, publicKey) ==
    /\ Ready
    /\ callArgs' = [fn |-> "VerifySignature", algorithm |-> algorithm, message |-> message,
                    signature |-> signature, publicKey |-> publicKey]
    /\ callOut' = [fn |-> "VerifySignature",
                   err |-> MLDSAVerify(algorithm, message, signature, publicKey)]
    /\ UNCHANGED varsPQ
    /\ UNCHANGED <<varsGPU, varsX402, varsEngine>>

BatchVerifySignaturesCall(algorithm, messages, signatures, publicKeys, cgocheck) ==
    /\ Ready
    /\ callArgs' = [fn |-> "BatchVerifySignatures", algorithm |-> algorithm,
                    messages |-> messages, signatures |-> signatures,
                    publicKeys |-> publicKeys]
    /\ callOut' = [fn |-> "BatchVerifySignatures",
                   r |-> BatchVerifySignatures(algorithm, messages, signatures,
                                               publicKeys, cgocheck)]
    /\ UNCHANGED varsPQ
    /\ UNCHANGED <<varsGPU, varsX402, varsEngine>>

InitMLDSA ==
    /\ lib \in LibBuilds \cup {NotLinked}
    /\ cfg = [PostQuantum |-> FALSE, PQTBlock |-> -1, TransitionBlocks |-> 0,
              DefaultMLDSAAlgorithm |-> 0]
    /\ header = [Number |-> 0, Extra |-> <<>>]
    /\ snap = [Signers |-> {}, Recents |-> {}]
    /\ stage = "none"
    /\ sealInfo = [result |-> "none"]
    /\ verifyResult = "none"
    /\ pqSigned = {}
    /\ IdleCall
    /\ IdleGPU
    /\ IdleX402
    /\ IdleEngine

NextMLDSA ==
    \/ \E algorithm \in AlgorithmInputs : GenerateKeyPairCall(algorithm)
    \/ \E algorithm \in AlgorithmInputs, message \in MessageInputs :
          SignMessageCall(algorithm, message)
    \/ \E algorithm \in AlgorithmInputs : GetMLDSALengthsCall(algorithm)
    \/ \E algorithm \in AlgorithmInputs, message \in MessageInputs,
          signature \in SignatureInputs, publicKey \in PublicKeyInputs :
          VerifySignatureCall(algorithm, message, signature, publicKey)
    \/ \E algorithm \in AlgorithmInputs, messages \in BatchMessages,
          signatures \in BatchSignatures, publicKeys \in BatchPublicKeys,
          cgocheck \in BOOLEAN :
          BatchVerifySignaturesCall(algorithm, messages, signatures, publicKeys, cgocheck)

SpecMLDSA == InitMLDSA /\ [][NextMLDSA]_vars

(***************************************************************************)
(* The data path of the GPU processor: packing a batch into fixed slots,   *)
(* the accelerator entry points, unpacking, and the CPU implementations    *)
(***************************************************************************)

HASH_SLOT_BYTES == 256
TX_SLOT_BYTES == 1024

\* crypto.Keccak256, idealised as a collision-free tag of the bytes hashed
Keccak256(b) == [keccak |-> b]

\* 32 zero bytes
ZeroHash == [zero |-> 32]

clamp_length(length, max_length) == IF length > max_length THEN max_length ELSE length

\* the flat buffer made of the given slots
RECURSIVE Flat(_)
Flat(slots) == IF slots = <<>> THEN <<>> ELSE BCat(Head(slots), Flat(Tail(slots)))

\* prepareHashData: a zeroed buffer of 256-byte slots, item i copied to the
\* start of slot i and cut at the slot width; the lengths actually copied
prepareHashData(hashes) ==
    LET n(h) == IF BLen(h) > HASH_SLOT_BYTES THEN HASH_SLOT_BYTES ELSE BLen(h)
    IN [data |-> Flat([i \in 1..Len(hashes) |->
                         BCat(BTake(hashes[i], n(hashes[i])),
                              Bytes(0, HASH_SLOT_BYTES - n(hashes[i])))]),
        lengths |-> [i \in 1..Len(hashes) |-> n(hashes[i])]]

\* go_keccak256 over the first length bytes at offset off of the buffer
go_keccak256(input, off, length) == Keccak256(BSlice(input, off, off + length))

\* cuda_process_hashes stepping through the input by the output width
cuda_process_hashes_OutputStride(input, lengths, count) ==
    IF count <= 0 THEN [status |-> -1, out |-> <<>>]
    ELSE [status |-> 0,
          out |-> [i \in 1..count |->
                     go_keccak256(input, (i - 1) * 32,
                                  clamp_length(lengths[i], HASH_SLOT_BYTES))]]

\* cuda_process_hashes: [status, out], out holding one digest per item
cuda_process_hashes(input, lengths, count) ==
    IF count <= 0 THEN [status |-> -1, out |-> <<>>]
    ELSE [status |-> 0,
          out |-> [i \in 1..count |->
                     go_keccak256(input, (i - 1) * HASH_SLOT_BYTES,
                                  clamp_length(lengths[i], HASH_SLOT_BYTES))]]

\* processHashesOpenCL: the CPU-backed implementation, or the stub of the
\* opencl_stub build, which fails
processHashesOpenCL(input, lengths, count, openclStub) ==
    IF openclStub \/ count <= 0 THEN [status |-> -1, out |-> <<>>]
    ELSE [status |-> 0,
          out |-> [i \in 1..count |->
                     go_keccak256(input, (i - 1) * HASH_SLOT_BYTES,
                                  clamp_length(lengths[i], HASH_SLOT_BYTES))]]

\* processHashesCPU: [results, err, callbacks]
processHashesCPU(hashes) ==
    [results |-> [i \in 1..Len(hashes) |-> Keccak256(hashes[i])],
     err |-> "nil", callbacks |-> 1]

\* processHashesGPU
processHashesGPU(hashes, type, openclStub) ==
    LET in == prepareHashData(hashes)
        count == Len(hashes)
        r == CASE type = GPUTypeCUDA -> cuda_process_hashes(in.data, in.lengths, count)
               [] type = GPUTypeOpenCL ->
                    processHashesOpenCL(in.data, in.lengths, count, openclStub)
               [] OTHER -> [status |-> 0, out |-> [i \in 1..count |-> ZeroHash]]
    IN IF r.status # 0 THEN processHashesCPU(hashes)
       ELSE [results |-> r.out, err |-> "nil", callbacks |-> 1]

\* ProcessHashesBatch of the build without the gpu tag
ProcessHashesBatchStub(hashes) ==
    [results |-> <<>>, err |-> "GPU unavailable: built without 'gpu' tag", callbacks |-> 1]

\* hashWorker's choice for a batch it received
hashWorkerProcess(hashes, type, openclStub) ==
    IF type = GPUTypeNone THEN processHashesCPU(hashes)
    ELSE processHashesGPU(hashes, type, openclStub)

\* builds of the gpu package: with the gpu tag, with the gpu tag and the
\* OpenCL stubs, without the gpu tag
GPUBuilds == {"gpu", "gpu,opencl_stub", "nogpu"}

\* hash inputs: empty, "ethereum", 160 bytes, exactly one slot, one slot and
\* one more byte, and a second item that differs from it only past the slot
HashItems ==
    {<<>>, Bytes(101, 8), Bytes(1, 160), Bytes(2, HASH_SLOT_BYTES),
     Bytes(2, HASH_SLOT_BYTES + 1), BCat(Bytes(2, HASH_SLOT_BYTES), Bytes(3, 1))}

MaxItems == 2

HashBatches == UNION {[1..n -> HashItems] : n \in 1..MaxItems}

\* the accelerator a processor of this build can have selected at startup
BuildTypes(build) ==
    CASE build = "gpu" -> GPUTypes
      [] build = "gpu,opencl_stub" -> {GPUTypeNone, GPUTypeCUDA}
      [] build = "nogpu" -> {GPUTypeNone}

\* a hash batch is submitted and processed
HashBatchRun ==
    /\ callArgs.fn = "ProcessHashesBatch"
    /\ callOut = NoCall
    /\ callOut' = [fn |-> "ProcessHashesBatch",
                   r |-> IF callArgs.build = "nogpu"
                         THEN ProcessHashesBatchStub(callArgs.hashes)
                         ELSE hashWorkerProcess(callArgs.hashes, gpuType,
                                                callArgs.build = "gpu,opencl_stub")]
    /\ UNCHANGED callArgs
    /\ UNCHANGED <<varsGPU, varsPQ, varsX402, varsEngine>>

\* the same batch is then run through the accelerator path directly, as the
\* parity test does with a processor whose type is CUDA
HashParityRun ==
    /\ callOut.fn = "ProcessHashesBatch"
    /\ callArgs.build # "nogpu"
    /\ callArgs' = [callArgs EXCEPT !.fn = "processHashesGPU"]
    /\ callOut' = [fn |-> "processHashesGPU",
                   r |-> processHashesGPU(callArgs.hashes, GPUTypeCUDA, FALSE),
                   cpu |-> processHashesCPU(callArgs.hashes)]
    /\ UNCHANGED <<varsGPU, varsPQ, varsX402, varsEngine>>

InitHashData ==
    /\ \E build \in GPUBuilds :
          /\ gpuType \in BuildTypes(build)
          /\ callArgs \in [fn : {"ProcessHashesBatch"}, build : {build},
                           hashes : HashBatches]
    /\ callOut = NoCall
    /\ pool = [k \in Kinds |-> <<>>]
    /\ submitted = [k \in Kinds |-> 0]
    /\ calls = [k \in Kinds |-> <<>>]
    /\ worker = [k \in Kinds |-> [w \in Workers |-> 0]]
    /\ cancelled = FALSE
    /\ closePc = "none"
    /\ ret = [err |-> "none", cb |-> FALSE, cbErr |-> "none"]
    /\ IdlePQ
    /\ IdleX402
    /\ IdleEngine

NextHashData == HashBatchRun \/ HashParityRun

SpecHashData == InitHashData /\ [][NextHashData]_vars

(***************************************************************************)
(* Transactions                                                            *)
(***************************************************************************)

\* types.Transaction as far as the batch processor looks at it: nonce, gas
\* limit and the length of its data.  MarshalBinary is a length-prefixed
\* encoding: payload length (4), gas (4), nonce (1), data.
PayloadFixed == 5

MarshalBinary(tx) ==
    BCat(BCat(PutUint32(PayloadFixed + tx.dataLen), PutUint32(tx.gas)),
         BCat(Bytes(tx.nonce, 1), Bytes(170, tx.dataLen)))

\* tx.UnmarshalBinary: [err, tx]; bytes that are not one whole encoding fail
UnmarshalBinary(b) ==
    IF BLen(b) < 4 + PayloadFixed THEN [err |-> TRUE]
    ELSE IF Uint32(b, 0) < PayloadFixed \/ BLen(b) # 4 + Uint32(b, 0) THEN [err |-> TRUE]
    ELSE [err |-> FALSE,
          tx |-> [nonce |-> BAt(b, 8), gas |-> Uint32(b, 4),
                  dataLen |-> Uint32(b, 0) - PayloadFixed]]

\* tx.Hash()
TxHash(tx) == Keccak256(MarshalBinary(tx))

\* binary.LittleEndian.PutUint64
LittleEndianPutUint64(v) ==
    BCat(BCat(BCat(Bytes(v % 256, 1), Bytes((v \div 256) % 256, 1)),
              BCat(Bytes((v \div 65536) % 256, 1), Bytes(v \div 16777216, 1))),
         Bytes(0, 4))

\* binary.LittleEndian.Uint64 of eight bytes; the gas limits of the model are
\* below 2^31, so the upper four bytes are zero
LittleEndianUint64(b) ==
    BAt(b, 0) + 256 * BAt(b, 1) + 65536 * BAt(b, 2) + 16777216 * BAt(b, 3)

\* prepareTransactionData
prepareTransactionData(txs) ==
    LET n(tx) == IF BLen(MarshalBinary(tx)) > TX_SLOT_BYTES THEN TX_SLOT_BYTES
                 ELSE BLen(MarshalBinary(tx))
    IN [data |-> Flat([i \in 1..Len(txs) |->
                         BCat(BTake(MarshalBinary(txs[i]), n(txs[i])),
                              Bytes(0, TX_SLOT_BYTES - n(txs[i])))]),
        lengths |-> [i \in 1..Len(txs) |-> n(txs[i])]]

\* the 64-byte result entry: hash (0..31), valid (32), error code (33),
\* gas limit little-endian (40..47)
MalformedEntry == [hash |-> ZeroHash, valid |-> 0, errCode |-> 1, gas |-> Bytes(0, 8)]

\* go_process_transaction leaving the valid byte at zero
go_process_transaction_NoValidFlag(input, off, length) ==
    IF length <= 0 THEN MalformedEntry
    ELSE LET d == UnmarshalBinary(BSlice(input, off, off + length))
         IN IF d.err THEN MalformedEntry
            ELSE [hash |-> TxHash(d.tx), valid |-> 0, errCode |-> 0,
                  gas |-> LittleEndianPutUint64(d.tx.gas)]

\* go_process_transaction on the first length bytes at offset off
go_process_transaction(input, off, length) ==
    IF length <= 0 THEN MalformedEntry
    ELSE LET d == UnmarshalBinary(BSlice(input, off, off + length))
         IN IF d.err THEN MalformedEntry
            ELSE [hash |-> TxHash(d.tx), valid |-> 1, errCode |-> 0,
                  gas |-> LittleEndianPutUint64(d.tx.gas)]

\* cuda_process_transactions: [status, out]
cuda_process_transactions(input, lengths, count) ==
    IF count <= 0 THEN [status |-> -1, out |-> <<>>]
    ELSE [status |-> 0,
          out |-> [i \in 1..count |->
                     go_process_transaction(input, (i - 1) * TX_SLOT_BYTES,
                                            clamp_length(lengths[i], TX_SLOT_BYTES))]]

\* processTxBatchOpenCL: the CPU-backed implementation, or the failing stub
processTxBatchOpenCL(input, lengths, count, openclStub) ==
    IF openclStub \/ count <= 0 THEN [status |-> -1, out |-> <<>>]
    ELSE [status |-> 0,
          out |-> [i \in 1..count |->
                     go_process_transaction(input, (i - 1) * TX_SLOT_BYTES,
                                            clamp_length(lengths[i], TX_SLOT_BYTES))]]

\* processTransactionsCPU: [results, err, callbacks]
processTransactionsCPU(txs) ==
    [results |-> [i \in 1..Len(txs) |->
                    [Hash |-> TxHash(txs[i]), Valid |-> TRUE, GasUsed |-> txs[i].gas,
                     Error |-> "nil"]],
     err |-> "nil", callbacks |-> 1]

\* processTransactionsGPU
processTransactionsGPU(txs, type, openclStub) ==
    LET in == prepareTransactionData(txs)
        count == Len(txs)
        r == CASE type = GPUTypeCUDA -> cuda_process_transactions(in.data, in.lengths, count)
               [] type = GPUTypeOpenCL ->
                    processTxBatchOpenCL(in.data, in.lengths, count, openclStub)
               [] OTHER -> [status |-> 0,
                            out |-> [i \in 1..count |->
                                       [hash |-> ZeroHash, valid |-> 0, errCode |-> 0,
                                        gas |-> Bytes(0, 8)]]]
    IN IF r.status # 0 THEN processTransactionsCPU(txs)
       ELSE [results |->
               [i \in 1..count |->
                  LET entry == r.out[i]
                      gas == LittleEndianUint64(entry.gas)
                  IN [Hash |-> IF entry.hash = ZeroHash THEN TxHash(txs[i]) ELSE entry.hash,
                      Valid |-> entry.valid # 0 /\ entry.errCode = 0,
                      GasUsed |-> IF gas > 0 THEN gas ELSE txs[i].gas,
                      Error |-> IF entry.errCode # 0 THEN "gpu transaction decode failed"
                                ELSE "nil"]],
             err |-> "nil", callbacks |-> 1]

\* ProcessTransactionsBatch of the build without the gpu tag
ProcessTransactionsBatchStub(txs) ==
    [results |-> <<>>, err |-> "GPU unavailable: built without 'gpu' tag", callbacks |-> 1]

\* transactionWorker's choice for a batch it received
transactionWorkerProcess(txs, type, openclStub) ==
    IF type = GPUTypeNone THEN processTransactionsCPU(txs)
    ELSE processTransactionsGPU(txs, type, openclStub)

\* transactions: gas limit 0, 21000 or 90000; no data, data that fills the
\* slot exactly, data one byte too long for the slot
Transactions ==
    [nonce : {1}, gas : {0, 21000, 90000},
     dataLen : {0, TX_SLOT_BYTES - 4 - PayloadFixed, TX_SLOT_BYTES - 4 - PayloadFixed + 1}]

TxBatches == UNION {[1..n -> Transactions] : n \in 1..MaxItems}

\* a transaction batch is submitted and processed
TxBatchRun ==
    /\ callArgs.fn = "ProcessTransactionsBatch"
    /\ callOut = NoCall
    /\ callOut' = [fn |-> "ProcessTransactionsBatch",
                   r |-> IF callArgs.build = "nogpu"
                         THEN ProcessTransactionsBatchStub(callArgs.txs)
                         ELSE transactionWorkerProcess(callArgs.txs, gpuType,
                                                       callArgs.build = "gpu,opencl_stub")]
    /\ UNCHANGED callArgs
    /\ UNCHANGED <<varsGPU, varsPQ, varsX402, varsEngine>>

\* the same batch is then run through the accelerator path directly, as the
\* parity test does with a processor whose type is CUDA
TxParityRun ==
    /\ callOut.fn = "ProcessTransactionsBatch"
    /\ callArgs.build # "nogpu"
    /\ callArgs' = [callArgs EXCEPT !.fn = "processTransactionsGPU"]
    /\ callOut' = [fn |-> "processTransactionsGPU",
                   r |-> processTransactionsGPU(callArgs.txs, GPUTypeCUDA, FALSE)]
    /\ UNCHANGED <<varsGPU, varsPQ, varsX402, varsEngine>>

InitTxData ==
    /\ \E build \in GPUBuilds :
          /\ gpuType \in BuildTypes(build)
          /\ callArgs \in [fn : {"ProcessTransactionsBatch"}, build : {build},
                           txs : TxBatches]
    /\ callOut = NoCall
    /\ pool = [k \in Kinds |-> <<>>]
    /\ submitted = [k \in Kinds |-> 0]
    /\ calls = [k \in Kinds |-> <<>>]
    /\ worker = [k \in Kinds |-> [w \in Workers |-> 0]]
    /\ cancelled = FALSE
    /\ closePc = "none"
    /\ ret = [err |-> "none", cb |-> FALSE, cbErr |-> "none"]
    /\ IdlePQ
    /\ IdleX402
    /\ IdleEngine

NextTxData == TxBatchRun \/ TxParityRun

SpecTxData == InitTxData /\ [][NextTxData]_vars
(***************************************************************************)
(* Start-up of the processor and submissions, build by build               *)
(***************************************************************************)

\* what a probe can report: an error, no device, one device, two devices
ProbeResults == {-1, 0, 1, 2}

\* initializeGPU: is CUDA probed, is OpenCL probed
probesCUDA(preferredType) == preferredType = GPUTypeCUDA \/ preferredType = GPUTypeNone
probesOpenCL(preferredType, cudaDevices) ==
    /\ ~(probesCUDA(preferredType) /\ cudaDevices > 0)
    /\ (preferredType = GPUTypeOpenCL \/ preferredType = GPUTypeNone)

\* initializeGPU: p.deviceCount, left at zero when no probe succeeds
deviceCount(preferredType, cudaDevices, openclDevices) ==
    IF probesCUDA(preferredType) /\ cudaDevices > 0 THEN cudaDevices
    ELSE IF probesOpenCL(preferredType, cudaDevices) /\ openclDevices > 0 THEN openclDevices
    ELSE 0

\* NewGPUProcessor of the build named in callArgs: the stub of the build
\* without the gpu tag probes nothing
NewGPUProcessorCall ==
    /\ callArgs.fn = "NewGPUProcessor"
    /\ callOut = NoCall
    /\ IF callArgs.build = "nogpu"
       THEN /\ gpuType' = GPUTypeNone
            /\ callOut' = [fn |-> "NewGPUProcessor", deviceCount |-> 0,
                           cudaProbed |-> FALSE, openclProbed |-> FALSE]
       ELSE /\ gpuType' = initializeGPU(callArgs.preferredType, callArgs.cuda,
                                        callArgs.opencl)
            /\ callOut' = [fn |-> "NewGPUProcessor",
                           deviceCount |-> deviceCount(callArgs.preferredType,
                                                       callArgs.cuda, callArgs.opencl),
                           cudaProbed |-> probesCUDA(callArgs.preferredType),
                           openclProbed |-> probesOpenCL(callArgs.preferredType,
                                                         callArgs.cuda)]
    /\ UNCHANGED <<callArgs, pool, submitted, calls, worker, cancelled, closePc, ret>>
    /\ UNCHANGED <<varsPQ, varsX402, varsEngine>>

\* Process*Batch of the build without the gpu tag: the callback is invoked
\* with an error whatever the batch, nothing is kept
ProcessBatchStub(k, empty) ==
    /\ callOut # NoCall
    /\ callArgs.build = "nogpu"
    /\ ret' = [err |-> "nil", cb |-> TRUE,
               cbErr |-> "GPU unavailable: built without 'gpu' tag"]
    /\ UNCHANGED <<gpuType, pool, submitted, calls, worker, cancelled, closePc>>
    /\ UNCHANGED <<varsPQ, varsX402, varsCall, varsEngine>>

\* the processor of a build with the gpu tag, once constructed
Constructed == callOut # NoCall /\ callArgs.build # "nogpu"

NextBuilds ==
    \/ NewGPUProcessorCall
    \/ \E k \in Kinds, empty \in BOOLEAN : ProcessBatchStub(k, empty)
    \/ \E k \in Kinds : Constructed /\ ProcessBatchEmpty(k)
    \/ \E k \in Kinds : Constructed /\ submitted[k] < MaxSmall /\ ProcessBatchEnqueue(k)
    \/ \E k \in Kinds, w \in Workers : Constructed /\ WorkerTake(k, w)
    \/ \E k \in Kinds, w \in Workers : Constructed /\ WorkerRun(k, w)

\* before NewGPUProcessor: the configuration and what the probes of the
\* machine will report; initOpenCL of the stubs reports -1
InitBuilds ==
    /\ \/ callArgs \in [fn : {"NewGPUProcessor"}, build : {"gpu"},
                        preferredType : GPUTypes, cuda : ProbeResults,
                        opencl : ProbeResults]
       \/ callArgs \in [fn : {"NewGPUProcessor"}, build : {"gpu,opencl_stub"},
                        preferredType : GPUTypes, cuda : ProbeResults, opencl : {-1}]
       \/ callArgs \in [fn : {"NewGPUProcessor"}, build : {"nogpu"},
                        preferredType : GPUTypes, cuda : {-1}, opencl : {-1}]
    /\ callOut = NoCall
    /\ gpuType = GPUTypeNone
    /\ pool = [k \in Kinds |-> <<>>]
    /\ submitted = [k \in Kinds |-> 0]
    /\ calls = [k \in Kinds |-> <<>>]
    /\ worker = [k \in Kinds |-> [w \in Workers |-> 0]]
    /\ cancelled = FALSE
    /\ closePc = "none"
    /\ ret = [err |-> "none", cb |-> FALSE, cbErr |-> "none"]
    /\ IdlePQ
    /\ IdleX402
    /\ IdleEngine

SpecBuilds == InitBuilds /\ [][NextBuilds]_vars

(***************************************************************************)
(* Signature batches: the CPU path and the accelerator path                *)
(***************************************************************************)

SIGNATURE_BYTES == 65
MESSAGE_BYTES == 32
PUBKEY_BYTES == 65

\* secp256k1, idealised.  Key pair id has the uncompressed public key
\* 0x04 || X || Y with 64 bytes of value 16 + id for X || Y; its signature of
\* the 32-byte digest of bytes m is R || S, 64 bytes of value 32 + 8 * id + m,
\* followed by the recovery byte V.
SecpKeys == {1, 2}
Digests == {1, 2}
secpRaw(id) == Bytes(16 + id, 64)
FromECDSAPub(id) == BCat(Bytes(4, 1), secpRaw(id))
cryptoSign(digest, id) == BCat(Bytes(32 + 8 * id + BAt(digest, 0), 64), Bytes(0, 1))

\* crypto.VerifySignature(pubkey, hash, sig): sig is R || S, the key is in the
\* uncompressed form (compressed keys never reach it here: the CPU path lets
\* only 65 bytes through, the accelerator path hands over a 65-byte slot,
\* which parses only with the 0x04 prefix)
cryptoVerifySignature(pubkey, hash, sig) ==
    /\ BLen(sig) = 64
    /\ BLen(hash) = 32
    /\ BLen(pubkey) = 65
    /\ \E id \in SecpKeys, m \in Digests :
          /\ pubkey = FromECDSAPub(id)
          /\ hash = Bytes(m, 32)
          /\ sig = BTake(cryptoSign(hash, id), 64)

\* copy(slot, src) into a zeroed slot of n bytes
copySlot(src, n) == BCat(BTake(src, n), Bytes(0, n - BLen(BTake(src, n))))

\* go_verify_signature on the three slots of one item
go_verify_signature(signature, message, publicKey) ==
    /\ BLen(signature) = SIGNATURE_BYTES
    /\ BLen(message) = MESSAGE_BYTES
    /\ BLen(publicKey) = PUBKEY_BYTES
    /\ cryptoVerifySignature(publicKey, message, BTake(signature, 64))

\* cuda_verify_signatures and verifySignaturesOpenCL of the CPU-backed
\* kernels: out[i] for a batch of count >= 1
cuda_verify_signatures(sigs, msgs, keys) ==
    [ret |-> 0,
     out |-> [i \in 1..Len(sigs) |-> go_verify_signature(sigs[i], msgs[i], keys[i])]]

verifySignaturesOpenCL(sigs, msgs, keys, openclStub) ==
    IF openclStub THEN [ret |-> -1, out |-> <<>>]
    ELSE cuda_verify_signatures(sigs, msgs, keys)

\* processSignaturesCPU: batch.Results
processSignaturesCPU(batch) ==
    [i \in 1..Len(batch.Signatures) |->
        IF BLen(batch.Signatures[i]) < 64 \/ BLen(batch.Messages[i]) # 32 THEN FALSE
        ELSE LET key == batch.PublicKeys[i]
                 sig == BTake(batch.Signatures[i], 64)
             IN CASE BLen(key) = 65 ->
                       cryptoVerifySignature(key, batch.Messages[i], sig)
                  [] BLen(key) = 64 ->
                       cryptoVerifySignature(BCat(Bytes(4, 1), key), batch.Messages[i], sig)
                  [] OTHER -> FALSE]

\* processSignaturesGPU: batch.Results.  Every item is copied into its slots
\* of 65, 32 and 65 bytes; a non-zero return sends the batch to the CPU.
processSignaturesGPU(batch, type, openclStub) ==
    LET count == Len(batch.Signatures)
        sigs == [i \in 1..count |-> copySlot(batch.Signatures[i], SIGNATURE_BYTES)]
        msgs == [i \in 1..count |-> copySlot(batch.Messages[i], MESSAGE_BYTES)]
        keys == [i \in 1..count |-> copySlot(batch.PublicKeys[i], PUBKEY_BYTES)]
        r == IF type = GPUTypeCUDA THEN cuda_verify_signatures(sigs, msgs, keys)
             ELSE verifySignaturesOpenCL(sigs, msgs, keys, openclStub)
    IN IF r.ret # 0 THEN processSignaturesCPU(batch) ELSE r.out

\* items of a batch: key 1's signature of digest 1 with the uncompressed key,
\* with the raw key, with the key of another pair, with key and one byte
\* more, with 33 bytes of key; a damaged signature; R || S without V;
\* the digest and one byte more
SigItems ==
    LET digest == Bytes(1, 32)
        sig == cryptoSign(digest, 1)
        item(s, m, k) == [sig |-> s, msg |-> m, key |-> k]
    IN {item(sig, digest, FromECDSAPub(1)),
        item(sig, digest, secpRaw(1)),
        item(sig, digest, FromECDSAPub(2)),
        item(sig, digest, BCat(FromECDSAPub(1), Bytes(0, 1))),
        item(sig, digest, BTake(FromECDSAPub(1), 33)),
        item(Bytes(0, 65), digest, FromECDSAPub(1)),
        item(BTake(sig, 64), digest, FromECDSAPub(1)),
        item(sig, BCat(digest, Bytes(9, 1)), FromECDSAPub(1))}

SigBatchOf(items) ==
    [Signatures |-> [i \in DOMAIN items |-> items[i].sig],
     Messages |-> [i \in DOMAIN items |-> items[i].msg],
     PublicKeys |-> [i \in DOMAIN items |-> items[i].key]]

SigBatches == {SigBatchOf(items) : items \in UNION {[1..n -> SigItems] : n \in 1..MaxItems}}

\* the batch is run through the CPU path and through the accelerator path,
\* as the parity test does
SigParityRun ==
    /\ callArgs.fn = "ProcessSignaturesBatch"
    /\ callOut = NoCall
    /\ callOut' = [fn |-> "ProcessSignaturesBatch",
                   cpu |-> processSignaturesCPU(callArgs.batch),
                   gpu |-> processSignaturesGPU(callArgs.batch, gpuType,
                                                callArgs.build = "gpu,opencl_stub")]
    /\ UNCHANGED callArgs
    /\ UNCHANGED <<varsGPU, varsPQ, varsX402, varsEngine>>

InitSigData ==
    /\ \E build \in GPUBuilds \ {"nogpu"} :
          /\ gpuType \in BuildTypes(build) \ {GPUTypeNone}
          /\ callArgs \in [fn : {"ProcessSignaturesBatch"}, build : {build},
                           batch : SigBatches]
    /\ callOut = NoCall
    /\ pool = [k \in Kinds |-> <<>>]
    /\ submitted = [k \in Kinds |-> 0]
    /\ calls = [k \in Kinds |-> <<>>]
    /\ worker = [k \in Kinds |-> [w \in Workers |-> 0]]
    /\ cancelled = FALSE
    /\ closePc = "none"
    /\ ret = [err |-> "none", cb |-> FALSE, cbErr |-> "none"]
    /\ IdlePQ
    /\ IdleX402
    /\ IdleEngine

NextSigData == SigParityRun

SpecSigData == InitSigData /\ [][NextSigData]_vars

(***************************************************************************)
(* The post-quantum consensus engine (consensus/pqconsensus/pq_engine.go)  *)
(***************************************************************************)

\* PQKeyRotationInterval, in blocks
PQKeyRotationInterval == 100000

\* PQRandomBeaconInterval, in blocks
PQRandomBeaconInterval == 1000

\* key pairs the library may generate in one run of the model
MaxKeys == 4

\* the public key of the n-th key pair the library generates
FreshKey(algorithm, n) == GenerateKeyPair(algorithm, 10 + n)

\* PQSignatureType of the engine
EnginePQSigTypeMLDSA44 == 1
EnginePQSigTypeMLDSA65 == 2
EnginePQSigTypeMLDSA87 == 3

\* a VerifyPQSignatureBundle has found its registry entry and not yet returned
InFlight == bundleCall.pc \in {"looked", "expiry"}

\* A running VerifyPQSignatureBundle holds a pointer to the PQValidatorKey
\* it found.  Once the registry entry of a validator is replaced or deleted the
\* pointer no longer refers to the registry's object.
Detached(validators) ==
    IF InFlight /\ bundleCall.bundle.ValidatorAddress \in validators
    THEN [bundleCall EXCEPT !.detached = TRUE]
    ELSE bundleCall

\* RotateValidatorKeys writes into the PQValidatorKey objects of the registry:
\* a running verification that still points to one of them can observe its
\* new contents, keys[validator], as well
Observing(keys) ==
    IF InFlight /\ ~bundleCall.detached
    THEN [bundleCall EXCEPT
            !.seen = bundleCall.seen \cup {keys[bundleCall.bundle.ValidatorAddress]}]
    ELSE bundleCall

\* what RegisterValidatorKey answers: the arguments are kept with the error
RegisterReturn(validator, algorithm, publicKey, blockNumber, err) ==
    [fn |-> "RegisterValidatorKey", block |-> blockNumber, err |-> err,
     validator |-> validator, algorithm |-> algorithm, publicKey |-> publicKey]

\* RegisterValidatorKey: the key is validated next to a signature of 3309
\* bytes (the backup SLH-DSA key bears on no property here and is left out)
RegisterValidatorKey(validator, algorithm, publicKey, blockNumber) ==
    /\ IF ValidateMLDSAParams(algorithm, Bytes(0, 3309), publicKey) # "ok"
       THEN /\ engineRet' = RegisterReturn(validator, algorithm, publicKey, blockNumber,
                                           "invalid validator key")
            /\ UNCHANGED <<validatorKeys, bundleCall>>
       ELSE IF algorithm \notin {MLDSA44, MLDSA65, MLDSA87}
       THEN /\ engineRet' = RegisterReturn(validator, algorithm, publicKey, blockNumber,
                                           "unsupported algorithm")
            /\ UNCHANGED <<validatorKeys, bundleCall>>
       ELSE /\ validatorKeys' = [validatorKeys EXCEPT ![validator] =
                   [Algorithm |-> algorithm, PublicKey |-> publicKey,
                    KeyGenTime |-> blockNumber,
                    ExpiryTime |-> blockNumber + PQKeyRotationInterval,
                    SignatureType |-> CASE algorithm = MLDSA44 -> EnginePQSigTypeMLDSA44
                                        [] algorithm = MLDSA65 -> EnginePQSigTypeMLDSA65
                                        [] algorithm = MLDSA87 -> EnginePQSigTypeMLDSA87]]
            /\ engineRet' = RegisterReturn(validator, algorithm, publicKey, blockNumber, "none")
            /\ bundleCall' = Detached({validator})
    /\ UNCHANGED <<kemKeys, sharedSecrets, secretMem, randomBeacon, keyCount>>
    /\ UNCHANGED <<varsGPU, varsPQ, varsX402, varsCall>>

\* the validators whose key RotateValidatorKeys(blockNumber) finds expired
Expired(blockNumber) ==
    {v \in DOMAIN validatorKeys :
        /\ validatorKeys[v] # NoKey
        /\ blockNumber >= validatorKeys[v].ExpiryTime}

\* RotateValidatorKeys: the registry after the loop.  A key whose generation
\* fails is skipped (continue).
RotateValidatorKeys(blockNumber) ==
    [v \in DOMAIN validatorKeys |->
        IF v \notin Expired(blockNumber) THEN validatorKeys[v]
        ELSE LET nth == keyCount + Cardinality({w \in Expired(blockNumber) : w <= v})
                 gen == FreshKey(validatorKeys[v].Algorithm, nth)
             IN IF gen.err # "none" THEN validatorKeys[v]
                ELSE [validatorKeys[v] EXCEPT
                        !.PublicKey = gen.publicKey,
                        !.KeyGenTime = blockNumber,
                        !.ExpiryTime = blockNumber + PQKeyRotationInterval]]

\* VerifyQuantumSafeBlock: no bundle is extracted from the header, the beacon
\* is looked at on beacon blocks, then the keys are rotated
VerifyQuantumSafeBlock(blockNumber) ==
    /\ keyCount + Cardinality(Expired(blockNumber)) <= MaxKeys
    /\ IF blockNumber % PQRandomBeaconInterval = 0 /\ BLen(randomBeacon) # 32
       THEN /\ engineRet' = [fn |-> "VerifyQuantumSafeBlock", block |-> blockNumber,
                             err |-> "quantum random beacon verification failed"]
            /\ UNCHANGED <<validatorKeys, keyCount, bundleCall>>
       ELSE /\ validatorKeys' = RotateValidatorKeys(blockNumber)
            /\ bundleCall' = Observing(RotateValidatorKeys(blockNumber))
            /\ keyCount' = IF lib = NotLinked THEN keyCount
                           ELSE keyCount + Cardinality(Expired(blockNumber))
            /\ engineRet' = [fn |-> "VerifyQuantumSafeBlock", block |-> blockNumber,
                             err |-> "none"]
    /\ UNCHANGED <<kemKeys, sharedSecrets, secretMem, randomBeacon>>
    /\ UNCHANGED <<varsGPU, varsPQ, varsX402, varsCall>>

\* EstablishQuantumSafeChannel: the secret is a digest of the generated ML-KEM
\* key pair, 32 bytes that are not all zero
EstablishQuantumSafeChannel(peerAddress) ==
    /\ keyCount < MaxKeys
    /\ IF peerAddress \in sharedSecrets
       THEN /\ engineRet' = [fn |-> "EstablishQuantumSafeChannel", block |-> 0,
                             err |-> "none"]
            /\ UNCHANGED <<kemKeys, sharedSecrets, secretMem, keyCount>>
       ELSE IF lib = NotLinked
       THEN /\ engineRet' = [fn |-> "EstablishQuantumSafeChannel", block |-> 0,
                             err |-> "failed to generate ML-KEM key pair"]
            /\ UNCHANGED <<kemKeys, sharedSecrets, secretMem, keyCount>>
       ELSE /\ kemKeys' = kemKeys \cup {peerAddress}
            /\ secretMem' = [secretMem EXCEPT ![peerAddress] = Bytes(200 + keyCount, 32)]
            /\ sharedSecrets' = sharedSecrets \cup {peerAddress}
            /\ keyCount' = keyCount + 1
            /\ engineRet' = [fn |-> "EstablishQuantumSafeChannel", block |-> 0,
                             err |-> "none"]
    /\ UNCHANGED <<validatorKeys, randomBeacon>>
    /\ UNCHANGED bundleCall
    /\ UNCHANGED <<varsGPU, varsPQ, varsX402, varsCall>>

\* GenerateQuantumRandomBeacon: off the interval the current beacon is
\* returned; on it a digest of fresh entropy (any of the 32-byte values
\* entropy) replaces it
GenerateQuantumRandomBeacon(blockNumber, entropy) ==
    /\ randomBeacon' = IF blockNumber % PQRandomBeaconInterval # 0 THEN randomBeacon
                       ELSE Bytes(entropy, 32)
    /\ engineRet' = [fn |-> "GenerateQuantumRandomBeacon", block |-> blockNumber,
                     err |-> "none"]
    /\ UNCHANGED <<validatorKeys, kemKeys, sharedSecrets, secretMem, keyCount>>
    /\ UNCHANGED bundleCall
    /\ UNCHANGED <<varsGPU, varsPQ, varsX402, varsCall>>

\* Close leaving the shared secrets' bytes as they are
EngineClose_NoZeroing ==
    /\ validatorKeys' = [v \in DOMAIN validatorKeys |-> NoKey]
    /\ sharedSecrets' = {}
    /\ randomBeacon' = Bytes(0, BLen(randomBeacon))
    /\ engineRet' = [fn |-> "Close", block |-> 0, err |-> "none"]
    /\ UNCHANGED <<kemKeys, secretMem, keyCount>>
    /\ bundleCall' = Detached(DOMAIN validatorKeys)
    /\ UNCHANGED <<varsGPU, varsPQ, varsX402, varsCall>>

\* PQConsensusEngine.Close: every registry entry is deleted, every shared
\* secret is overwritten with zeros and deleted, the beacon is overwritten
\* with zeros in place
EngineClose ==
    /\ validatorKeys' = [v \in DOMAIN validatorKeys |-> NoKey]
    /\ secretMem' = [a \in DOMAIN secretMem |->
                        IF a \in sharedSecrets THEN Bytes(0, BLen(secretMem[a]))
                        ELSE secretMem[a]]
    /\ sharedSecrets' = {}
    /\ randomBeacon' = Bytes(0, BLen(randomBeacon))
    /\ engineRet' = [fn |-> "Close", block |-> 0, err |-> "none"]
    /\ UNCHANGED <<kemKeys, keyCount>>
    /\ bundleCall' = Detached(DOMAIN validatorKeys)
    /\ UNCHANGED <<varsGPU, varsPQ, varsX402, varsCall>>

\* the engine of a node built with either liboqs build or without liboqs
InitEngine ==
    /\ NewPQConsensusEngine
    /\ cfg = [PostQuantum |-> TRUE, PQTBlock |-> 0, TransitionBlocks |-> 0,
              DefaultMLDSAAlgorithm |-> 65]
    /\ lib \in LibBuilds \cup {NotLinked}
    /\ header = [Number |-> 0, Extra |-> <<>>]
    /\ snap = [Signers |-> {}, Recents |-> {}]
    /\ stage = "none"
    /\ sealInfo = [result |-> "none"]
    /\ verifyResult = "none"
    /\ pqSigned = {}
    /\ IdleGPU
    /\ IdleX402
    /\ IdleCall

NextEngine ==
    \/ \E v \in {1, 2}, a \in {MLDSA65, "invalid"},
          pk \in {Bytes(1, 1952), Bytes(0, 100)}, n \in {0, 1} :
            RegisterValidatorKey(v, a, pk, n)
    \/ \E n \in {1, 1000, 100000, 100001, 200000} : VerifyQuantumSafeBlock(n)
    \/ \E peer \in {1, 2} : EstablishQuantumSafeChannel(peer)
    \/ \E n \in {1000, 1001}, e \in {7, 9} : GenerateQuantumRandomBeacon(n, e)
    \/ EngineClose

SpecEngine == InitEngine /\ [][NextEngine]_vars
(***************************************************************************)
(* Bundle verification against the validator key registry                  *)
(***************************************************************************)

\* getAlgorithmFromType, for the ML-DSA types (the SLH-DSA types name the
\* backup algorithms)
getAlgorithmFromType(sigType) ==
    CASE sigType = EnginePQSigTypeMLDSA44 -> MLDSA44
      [] sigType = EnginePQSigTypeMLDSA65 -> MLDSA65
      [] sigType = EnginePQSigTypeMLDSA87 -> MLDSA87
      [] OTHER -> MLDSA65

\* an absent aggregation proof (len 0)
NoProof == [empty |-> TRUE]

\* the proof verifyAggregationProof expects: a digest of both signatures, the
\* message and the validator's address
ExpectedProof(bundle, message) ==
    Keccak256(<<bundle.PrimarySignature, <<>>, message.Raw, bundle.ValidatorAddress>>)

\* VerifyPQSignatureBundle without the expiry check
bundleError_NoExpiry(bundle, message, blockNumber, entry) ==
    IF entry = NoKey THEN "validator key not found"
    ELSE IF MLDSAVerify(getAlgorithmFromType(bundle.PrimaryType), message,
                        bundle.PrimarySignature, entry.PublicKey) # "ok"
    THEN "primary signature verification failed"
    ELSE IF bundle.AggregationProof # NoProof
            /\ bundle.AggregationProof # ExpectedProof(bundle, message)
    THEN "aggregation proof verification failed"
    ELSE "none"

\* VerifyPQSignatureBundle's answer when it finds entry for the bundle's
\* validator.  A failing backup signature is only logged.
bundleError(bundle, message, blockNumber, entry) ==
    IF entry = NoKey THEN "validator key not found"
    ELSE IF blockNumber > entry.ExpiryTime THEN "validator key expired"
    ELSE IF MLDSAVerify(getAlgorithmFromType(bundle.PrimaryType), message,
                        bundle.PrimarySignature, entry.PublicKey) # "ok"
    THEN "primary signature verification failed"
    ELSE IF bundle.AggregationProof # NoProof
            /\ bundle.AggregationProof # ExpectedProof(bundle, message)
    THEN "aggregation proof verification failed"
    ELSE "none"

\* VerifyPQSignatureBundle, running alone
VerifyPQSignatureBundle(bundle, message, blockNumber) ==
    /\ engineRet' = [fn |-> "VerifyPQSignatureBundle", block |-> blockNumber,
                     err |-> bundleError(bundle, message, blockNumber,
                                         validatorKeys[bundle.ValidatorAddress]),
                     bundle |-> bundle]
    /\ UNCHANGED <<validatorKeys, kemKeys, sharedSecrets, secretMem, randomBeacon, keyCount>>
    /\ UNCHANGED bundleCall
    /\ UNCHANGED <<varsGPU, varsPQ, varsX402, varsCall>>

\* the message validators sign in this model
BundleMessage == [Raw |-> Bytes(116, 4)]

\* bundles: from either validator, of type ML-DSA-44 or ML-DSA-65, carrying the key
\* owner's ML-DSA-65 signature or 100 zero bytes, with no proof, the expected
\* proof or another digest
Bundles ==
    {[ValidatorAddress |-> v, PrimaryType |-> t, PrimarySignature |-> s,
      AggregationProof |-> p] :
        v \in {1, 2}, t \in {EnginePQSigTypeMLDSA44, EnginePQSigTypeMLDSA65},
        s \in {Bytes(128 + KeyOwner, 3309), Bytes(0, 100)},
        p \in {NoProof, Keccak256(<<>>)}}
    \cup
    {[ValidatorAddress |-> v, PrimaryType |-> EnginePQSigTypeMLDSA65,
      PrimarySignature |-> Bytes(128 + KeyOwner, 3309),
      AggregationProof |-> Keccak256(<<Bytes(128 + KeyOwner, 3309), <<>>,
                                       BundleMessage.Raw, v>>)] : v \in {1, 2}}

\* keys put up for registration: one of the right length for each variant,
\* keys of a wrong length, and an unknown algorithm
RegisterInputs ==
    {<<MLDSA44, Bytes(KeyOwner, 1312)>>, <<MLDSA65, Bytes(KeyOwner, 1952)>>,
     <<MLDSA87, Bytes(KeyOwner, 2592)>>, <<MLDSA65, Bytes(0, 100)>>,
     <<MLDSA65, Bytes(KeyOwner, 1312)>>, <<"invalid", Bytes(KeyOwner, 1952)>>}

NextRegistry ==
    \/ \E algorithm \in {MLDSA44, MLDSA65} : SignMessageCall(algorithm, BundleMessage)
    \/ \E v \in {1, 2}, k \in RegisterInputs, n \in {0, 1} :
            RegisterValidatorKey(v, k[1], k[2], n)
    \/ \E n \in {100000, 100001} : VerifyQuantumSafeBlock(n)
    \/ \E bundle \in Bundles, n \in {100000, 100001} :
          VerifyPQSignatureBundle(bundle, BundleMessage, n)

SpecRegistry == InitEngine /\ [][NextRegistry]_vars

(***************************************************************************)
(* VerifyPQSignatureBundle beside the writers of the registry              *)
(***************************************************************************)

\* VerifyPQSignatureBundle, first step: under keyMutex.RLock the pointer
\* registered for the bundle's validator is fetched, and the lock is released
BundleLookup(bundle, blockNumber) ==
    /\ bundleCall.pc \in {"idle", "done"}
    /\ LET entry == validatorKeys[bundle.ValidatorAddress]
       IN bundleCall' =
            IF entry = NoKey
            THEN [pc |-> "done", bundle |-> bundle, block |-> blockNumber,
                  seen |-> {}, detached |-> FALSE, expiry |-> 0, key |-> <<>>,
                  err |-> "validator key not found"]
            ELSE [pc |-> "looked", bundle |-> bundle, block |-> blockNumber,
                  seen |-> {entry}, detached |-> FALSE, expiry |-> 0, key |-> <<>>,
                  err |-> "none"]
    /\ UNCHANGED <<validatorKeys, kemKeys, sharedSecrets, secretMem, randomBeacon,
                   keyCount, engineRet>>
    /\ UNCHANGED <<varsGPU, varsPQ, varsX402, varsCall>>

\* second step: validatorKey.ExpiryTime is read without the lock.  The read
\* races with the writes of a rotation: it yields any of the values the
\* object has held since the lookup.
BundleReadExpiry ==
    /\ bundleCall.pc = "looked"
    /\ \E x \in bundleCall.seen :
          bundleCall' =
            IF bundleCall.block > x.ExpiryTime
            THEN [bundleCall EXCEPT !.pc = "done", !.expiry = x.ExpiryTime,
                                    !.err = "validator key expired"]
            ELSE [bundleCall EXCEPT !.pc = "expiry", !.expiry = x.ExpiryTime]
    /\ UNCHANGED <<validatorKeys, kemKeys, sharedSecrets, secretMem, randomBeacon,
                   keyCount, engineRet>>
    /\ UNCHANGED <<varsGPU, varsPQ, varsX402, varsCall>>

\* third step: validatorKey.PublicKey is read, again without the lock, the
\* signature and the proof are verified and the call returns
BundleReadKey ==
    /\ bundleCall.pc = "expiry"
    /\ \E x \in bundleCall.seen :
          LET read == [x EXCEPT !.ExpiryTime = bundleCall.expiry]
              err == bundleError(bundleCall.bundle, BundleMessage, bundleCall.block, read)
          IN /\ bundleCall' = [bundleCall EXCEPT !.pc = "done", !.key = x.PublicKey,
                                                 !.err = err]
             /\ engineRet' = [fn |-> "VerifyPQSignatureBundle", block |-> bundleCall.block,
                              err |-> err, bundle |-> bundleCall.bundle]
    /\ UNCHANGED <<validatorKeys, kemKeys, sharedSecrets, secretMem, randomBeacon,
                   keyCount>>
    /\ UNCHANGED <<varsGPU, varsPQ, varsX402, varsCall>>

\* the bundles of the concurrent runs: well signed, of the type registered for
\* ML-DSA-65 keys, without a proof
RaceBundles ==
    {bundle \in Bundles :
        /\ bundle.PrimaryType = EnginePQSigTypeMLDSA65
        /\ bundle.PrimarySignature = Bytes(128 + KeyOwner, 3309)
        /\ bundle.AggregationProof = NoProof}

NextRace ==
    \/ \E v \in {1, 2}, n \in {0, 1} :
          RegisterValidatorKey(v, MLDSA65, Bytes(KeyOwner, 1952), n)
    \/ \E n \in {100000, 100001} : VerifyQuantumSafeBlock(n)
    \/ \E bundle \in RaceBundles, n \in {100000, 100001} : BundleLookup(bundle, n)
    \/ BundleReadExpiry
    \/ BundleReadKey

SpecRace == InitEngine /\ [][NextRace]_vars

(***************************************************************************)
(* x402 payment signatures: the canonical message and the signature rule   *)
(***************************************************************************)

\* the chain ids of the signer's and of the verifier's network
ChainIds == {1, 1337}

\* the v2 canonical message with the chain id left out of the text
CanonicalV2_NoChainId(p, chainId) ==
    <<"x402-payment", p.from, p.to, p.value, p.validAfter, p.validBefore, p.nonce>>

\* the v2 canonical message
\* x402-payment:{from}:{to}:{value}:{validAfter}:{validBefore}:{nonce}:{chainId}
\* as the sequence of its colon-separated fields
CanonicalV2(p, chainId) ==
    <<"x402-payment", p.from, p.to, p.value, p.validAfter, p.validBefore, p.nonce,
      chainId>>

\* the legacy v1 canonical message: no chain id
CanonicalV1(p) ==
    <<"x402-payment", p.from, p.to, p.value, p.validAfter, p.validBefore, p.nonce>>

\* accounts.TextHash: the EIP-191 hash of a message text, idealised as
\* collision free
TextHash(msg) == [eip191 |-> msg]

\* crypto.Sign(hash, key): the 65-byte signature of the holder of key
Sign(hash, key) == [r |-> key, s |-> hash]

\* signature recovery: the signer's address when the hash is the signed one,
\* an address nobody holds otherwise
RecoverAddress(hash, sig) == IF sig.s = hash THEN sig.r ELSE "nobody"

\* the signature rule: v2 is tried first, then v1; the address compared with
\* payload.from
RecoverPayer(p, sig, chainId) ==
    IF RecoverAddress(TextHash(CanonicalV2(p, chainId)), sig) = p.from
    THEN p.from
    ELSE RecoverAddress(TextHash(CanonicalV1(p)), sig)

\* the payer's client signs a payload: p.signer holds the key, version and
\* chainId pick the message
SignPayment(p, version, chainId) ==
    /\ callArgs' = [fn |-> "sign", payload |-> p, version |-> version,
                    chainId |-> chainId,
                    signature |-> Sign(TextHash(IF version = 2
                                                THEN CanonicalV2(p, chainId)
                                                ELSE CanonicalV1(p)), p.signer)]
    /\ callOut' = NoCall
    /\ UNCHANGED <<varsGPU, varsPQ, varsX402, varsEngine>>

\* x402_verify on a node of chain chainId, of the payload signed last
VerifySigned(req, chainId) ==
    /\ callArgs.fn = "sign"
    /\ LET p == callArgs.payload
           recovered == RecoverPayer(p, callArgs.signature, chainId)
       IN callOut' = [fn |-> "x402_verify", chainId |-> chainId, at |-> now,
                      reason |-> verify(req, [p EXCEPT !.signer = recovered],
                                        balance, registry \cup precheck, now)]
    /\ UNCHANGED callArgs
    /\ UNCHANGED <<varsGPU, varsPQ, varsX402, varsEngine>>

NextX402Sig ==
    \/ \E p \in Payloads, version \in {1, 2}, c \in ChainIds : SignPayment(p, version, c)
    \/ \E req \in Requirements, c \in ChainIds : VerifySigned(req, c)
    \/ Tick

SpecX402Sig == InitX402 /\ [][NextX402Sig]_vars
(***************************************************************************)
(* ML-DSA verify precompile (core/vm, address 0x0100)                      *)
(***************************************************************************)

MLDSAVerifyBaseGas == 15000
MLDSAVerifyPerByteGas == 3

\* the size of the precompile's header: algorithm id and three lengths
HeaderLen == 13

\* A uint32 is kept as its two 16-bit halves, so that lengths up to
\* 0xFFFFFFFF and the wrap of their sums stay representable.
U32(n) == [hi |-> n \div 65536, lo |-> n % 65536]

\* uint32 addition (modulo 2^32)
AddU32(a, b) ==
    LET lo == a.lo + b.lo
    IN [hi |-> (a.hi + b.hi + lo \div 65536) % 65536, lo |-> lo % 65536]

LeU32(a, b) == a.hi < b.hi \/ (a.hi = b.hi /\ a.lo <= b.lo)

\* the int a uint32 below 2^31 converts to
IntU32(a) == a.hi * 65536 + a.lo

\* binary.BigEndian.Uint32 of a four-byte slice
BigEndianUint32(s) ==
    [hi |-> BAt(s, 0) * 256 + BAt(s, 1), lo |-> BAt(s, 2) * 256 + BAt(s, 3)]

\* binary.BigEndian.PutUint32
BigEndianPutUint32(a) ==
    BCat(BCat(Bytes(a.hi \div 256, 1), Bytes(a.hi % 256, 1)),
         BCat(Bytes(a.lo \div 256, 1), Bytes(a.lo % 256, 1)))

\* mldsaVerify.RequiredGas
RequiredGas(input) ==
    LET baseGas == IF MLDSAVerifyBaseGas = 0 THEN 15000 ELSE MLDSAVerifyBaseGas
        perByteGas == IF MLDSAVerifyPerByteGas = 0 THEN 3 ELSE MLDSAVerifyPerByteGas
    IN baseGas + BLen(input) * perByteGas

\* the 32-byte words Run answers with
WordTrue == BCat(Bytes(0, 31), Bytes(1, 1))
WordFalse == Bytes(0, 32)

\* the precompile's answer: a returned error with no output, an output with
\* no error, or a run-time panic of the slice expressions
Returned(err, out) == [panic |-> FALSE, err |-> err, out |-> out]
Panicked == [panic |-> TRUE, err |-> "none", out |-> <<>>]

\* mldsaVerify.Run.  input[lo:hi] panics unless lo <= hi <= cap(input); a
\* high bound above len(input) only arises after the length test when the
\* uint32 sum has wrapped, and then some slice has hi < lo whatever the
\* capacity is.
Run(input) ==
    IF BLen(input) < 13 THEN Returned("input too short", <<>>)
    ELSE IF BAt(input, 0) \notin {68, 101, 135}
    THEN Returned("unsupported ML-DSA algorithm", <<>>)
    ELSE
      LET algorithmID == BAt(input, 0)
          algorithm == CASE algorithmID = 68 -> MLDSA44
                         [] algorithmID = 101 -> MLDSA65
                         [] algorithmID = 135 -> MLDSA87
          messageLen == BigEndianUint32(BSlice(input, 1, 5))
          signatureLen == BigEndianUint32(BSlice(input, 5, 9))
          pubkeyLen == BigEndianUint32(BSlice(input, 9, 13))
          expectedLen == AddU32(AddU32(AddU32(U32(13), messageLen), signatureLen), pubkeyLen)
          len == U32(BLen(input))
          o0 == U32(13)
          o1 == AddU32(o0, messageLen)
          o2 == AddU32(o1, signatureLen)
          o3 == AddU32(o2, pubkeyLen)
      IN IF len # expectedLen THEN Returned("input length mismatch", <<>>)
         ELSE IF ~(LeU32(o0, o1) /\ LeU32(o1, len)) THEN Panicked
         ELSE IF ~(LeU32(o1, o2) /\ LeU32(o2, len)) THEN Panicked
         ELSE IF ~(LeU32(o2, o3) /\ LeU32(o3, len)) THEN Panicked
         ELSE
           LET message == BSlice(input, 13, IntU32(o1))
               signature == BSlice(input, IntU32(o1), IntU32(o2))
               publicKey == BSlice(input, IntU32(o2), IntU32(o3))
               err == MLDSAVerify(algorithm, [Raw |-> message], signature, publicKey)
           IN IF err # "ok" THEN Returned("none", WordFalse)
              ELSE Returned("none", WordTrue)

\* the caller's encoding of a precompile input: header, then the body
PrecompileInput(algorithmID, messageLen, signatureLen, pubkeyLen, body) ==
    BCat(BCat(BCat(Bytes(algorithmID, 1), BigEndianPutUint32(messageLen)),
              BCat(BigEndianPutUint32(signatureLen), BigEndianPutUint32(pubkeyLen))),
         body)

\* how a caller declares the three lengths of the fields it has sent: as
\* they are, the message one byte too long, or 0xFFFFFFFF for the message
\* and the rest of the body plus one for the signature
Declared(how, m, s, p) ==
    CASE how = "exact" -> <<U32(m), U32(s), U32(p)>>
      [] how = "long" -> <<U32(m + 1), U32(s), U32(p)>>
      [] how = "wrap" -> <<[hi |-> 65535, lo |-> 65535], U32(m + s + 1), U32(p)>>

\* the input a caller builds from an algorithm id, three fields, a way of
\* declaring their lengths, and a number of bytes kept (0: all)
BuildInput(algorithmID, message, signature, publicKey, how, keep) ==
    LET d == Declared(how, BLen(message), BLen(signature), BLen(publicKey))
        whole == PrecompileInput(algorithmID, d[1], d[2], d[3],
                                 BCat(BCat(message, signature), publicKey))
    IN IF keep = 0 THEN whole ELSE BTake(whole, keep)

RunCall(algorithmID, message, signature, publicKey, how, keep) ==
    /\ Ready
    /\ LET input == BuildInput(algorithmID, message, signature, publicKey, how, keep)
       IN /\ callArgs' = [fn |-> "Run", algorithmID |-> algorithmID, message |-> message,
                          signature |-> signature, publicKey |-> publicKey,
                          how |-> how, keep |-> keep, input |-> input]
          /\ callOut' = [fn |-> "Run", r |-> Run(input)]
    /\ UNCHANGED varsPQ
    /\ UNCHANGED <<varsGPU, varsX402, varsEngine>>

RequiredGasCall(algorithmID, message, signature, publicKey, how, keep) ==
    /\ Ready
    /\ LET input == BuildInput(algorithmID, message, signature, publicKey, how, keep)
       IN /\ callArgs' = [fn |-> "RequiredGas", algorithmID |-> algorithmID,
                          message |-> message, signature |-> signature,
                          publicKey |-> publicKey, how |-> how, keep |-> keep,
                          input |-> input]
          /\ callOut' = [fn |-> "RequiredGas", gas |-> RequiredGas(input)]
    /\ UNCHANGED varsPQ
    /\ UNCHANGED <<varsGPU, varsX402, varsEngine>>

ValidateMLDSAParamsCall(algorithm, signature, publicKey) ==
    /\ Ready
    /\ callArgs' = [fn |-> "ValidateMLDSAParams", algorithm |-> algorithm,
                    signature |-> signature, publicKey |-> publicKey]
    /\ callOut' = [fn |-> "ValidateMLDSAParams",
                   err |-> ValidateMLDSAParams(algorithm, signature, publicKey)]
    /\ UNCHANGED varsPQ
    /\ UNCHANGED <<varsGPU, varsX402, varsEngine>>

NextPrecompile ==
    \/ \E algorithm \in {MLDSA44, MLDSA65}, message \in {[Raw |-> Bytes(116, 4)]} :
          SignMessageCall(algorithm, message)
    \/ \E algorithmID \in {68, 101, 135, 0}, message \in {<<>>, Bytes(116, 4)},
          signature \in {<<>>, Bytes(0, 100)} \cup
                        {Bytes(128 + KeyOwner, n) : n \in {2420, 3293, 3309}},
          publicKey \in {<<>>} \cup {Bytes(KeyOwner, n) : n \in {1312, 1952}},
          how \in {"exact", "long", "wrap"}, keep \in {0, 12} :
          \/ RunCall(algorithmID, message, signature, publicKey, how, keep)
          \/ RequiredGasCall(algorithmID, message, signature, publicKey, how, keep)
    \/ \E algorithm \in {MLDSA44, MLDSA65, MLDSA87, "invalid"},
          signature \in {Bytes(0, n) : n \in {100, 2420, 3293, 3309, 4595, 4627}},
          publicKey \in {Bytes(0, n) : n \in {100, 1312, 1952, 2592}} :
          ValidateMLDSAParamsCall(algorithm, signature, publicKey)

SpecPrecompile == InitMLDSA /\ [][NextPrecompile]_vars

(***************************************************************************)
(* Fork phases: the consensus hooks (uint64) and the chain configuration   *)
(* (big integers)                                                          *)
(***************************************************************************)

\* A 64-bit quantity is kept as hi * 2^63 + lo, with lo below 2^31: bit 63
\* apart from the low part, so that sums beyond 2^63 and 2^64 stay
\* representable.  A big integer is kept the same way with any integer hi.
Wide(hi, lo) == [hi |-> hi, lo |-> lo]

\* x < y
LtWide(x, y) == x.hi < y.hi \/ (x.hi = y.hi /\ x.lo < y.lo)

\* x + y in uint64: the carry out of bit 63 is lost
AddUint64(x, y) == [hi |-> (x.hi + y.hi) % 2, lo |-> x.lo + y.lo]

\* new(big.Int).Add(x, y)
AddBig(x, y) == [hi |-> x.hi + y.hi, lo |-> x.lo + y.lo]

\* int64(x) of a uint64 x: a value with bit 63 set becomes x - 2^64
Int64(x) == [hi |-> -x.hi, lo |-> x.lo]

\* a nil PQTBlock
NilBlock == [nil |-> TRUE]

\* TransitionBlocks, or PQTTransitionBlocks when it is 0
transitionBlocksOf(config) ==
    IF config.TransitionBlocks = Wide(0, 0) THEN Wide(0, PQTTransitionBlocks)
    ELSE config.TransitionBlocks

\* Clique.isPQTFork, isPQTTransition and isPQTEnforced over the whole uint64
\* range: [fork, transition, enforced]
cliquePhase(number, config) ==
    LET fork == IF ~config.PostQuantum \/ config.PQTBlock = NilBlock THEN FALSE
                ELSE ~LtWide(number, config.PQTBlock)
        enforceBlock64 == AddUint64(config.PQTBlock, transitionBlocksOf(config))
    IN [fork |-> fork,
        transition |-> IF ~fork THEN FALSE ELSE LtWide(number, enforceBlock64),
        enforced |-> IF ~fork THEN FALSE ELSE ~LtWide(number, enforceBlock64)]

\* isForked(s, head): s.Cmp(head) <= 0
isForked(s, head) == ~LtWide(head, s)

\* ChainConfig.IsPQTFork
IsPQTFork(num, config) ==
    IF ~config.PostQuantum \/ config.PQTBlock = NilBlock THEN FALSE
    ELSE isForked(config.PQTBlock, num)

\* enforceBlock of ChainConfig: PQTBlock + big.NewInt(int64(transitionBlocks))
EnforceBlockBig(config) == AddBig(config.PQTBlock, Int64(transitionBlocksOf(config)))

\* ChainConfig.IsPQTTransition
IsPQTTransition(num, config) ==
    IF ~IsPQTFork(num, config) THEN FALSE ELSE LtWide(num, EnforceBlockBig(config))

\* ChainConfig.IsPQTEnforced
IsPQTEnforced(num, config) ==
    IF ~IsPQTFork(num, config) THEN FALSE ELSE ~LtWide(num, EnforceBlockBig(config))

\* the three chain-config predicates together
chainPhase(num, config) ==
    [fork |-> IsPQTFork(num, config),
     transition |-> IsPQTTransition(num, config),
     enforced |-> IsPQTEnforced(num, config)]

\* configurations: no post-quantum section, no fork block, or a fork at
\* block 30000 (or 2^63) with a transition of 0 (unset), 2, 2^63 or 2^63 + 5
\* blocks
WideConfigs ==
    {[PostQuantum |-> FALSE, PQTBlock |-> NilBlock, TransitionBlocks |-> Wide(0, 0)],
     [PostQuantum |-> TRUE, PQTBlock |-> NilBlock, TransitionBlocks |-> Wide(0, 0)]}
    \cup
    [PostQuantum : {TRUE}, PQTBlock : {Wide(0, 30000), Wide(1, 0)},
     TransitionBlocks : {Wide(0, 0), Wide(0, 2), Wide(1, 0), Wide(1, 5)}]

\* block numbers around the fork block and the enforce blocks
WideNumbers ==
    {Wide(0, n) : n \in {1, 29999, 30000, 30001, 30002, 30003, 37199, 37200, 37201}}
    \cup {Wide(1, 0), Wide(1, 1), Wide(1, 30005)}

\* the chain reaches block number under config: both sets of predicates are
\* asked; the configuration stays, block numbers grow
PhaseAt(number, config) ==
    /\ \/ callArgs = NoCall
       \/ /\ callArgs.fn = "phase"
          /\ callArgs.config = config
          /\ LtWide(callArgs.number, number)
    /\ callArgs' = [fn |-> "phase", config |-> config, number |-> number]
    /\ callOut' = [fn |-> "phase", clique |-> cliquePhase(number, config),
                   chain |-> chainPhase(number, config)]
    /\ UNCHANGED varsPQ
    /\ UNCHANGED <<varsGPU, varsX402, varsEngine>>

NextPhases == \E number \in WideNumbers, config \in WideConfigs : PhaseAt(number, config)

InitPhases ==
    /\ IdleCall
    /\ IdleGPU
    /\ IdlePQ
    /\ IdleX402
    /\ IdleEngine

SpecPhases == InitPhases /\ [][NextPhases]_vars

(***************************************************************************)
(* Claims about the GPU processor                                          *)
(***************************************************************************)

\* a worker is done with batch id of kind k: dequeued and no longer held
Finished(k, id) ==
    /\ \A i \in 1..Len(pool[k]) : pool[k][i] # id
    /\ \A w \in Workers : worker[k][w] # id

AllWorkersReturned(k) == \A w \in Workers : worker[k][w] = -1

\* a non-empty submission to kind k returns in this step
NonEmptySubmit(k) ==
    ProcessBatchEnqueue(k) \/ ProcessBatchCtxDone(k) \/ ProcessBatchQueueFull(k)

\* C1: every accepted non-empty batch has its callback invoked exactly once:
\* never twice, and once the worker is done with it (or no worker is left to
\* take it) the count is one, whatever path handled it.
C1_CallbackExactlyOnce ==
    \A k \in Kinds : \A id \in 1..submitted[k] :
        /\ calls[k][id] <= 1
        /\ (Finished(k, id) \/ AllWorkersReturned(k)) => calls[k][id] = 1

\* C7: when Close returns, every batch accepted so far has had its callback
\* fired; none is left behind in a queue.
C7_CloseFiresEveryCallback ==
    [][CloseReturn => \A k \in Kinds : \A id \in 1..submitted[k] : calls[k][id] >= 1]_vars

\* C8 as stated: a non-empty submission made while the queue is full returns
\* the queue-full error.
C8_FullAlwaysQueueFullError ==
    [][\A k \in Kinds :
          (Len(pool[k]) >= QueueCap /\ NonEmptySubmit(k)) => ret'.err = "queue full"]_vars

\* C8 amended: no queue ever holds more than QueueCap batches; a non-empty
\* submission made while the queue is full never enqueues and never invokes the
\* callback; it returns the queue-full error while the context is live and the
\* context's cancellation error once Close has cancelled the context.
C8_QueueBounded ==
    /\ [](\A k \in Kinds : Len(pool[k]) <= QueueCap)
    /\ [][\A k \in Kinds :
            (Len(pool[k]) >= QueueCap /\ NonEmptySubmit(k)) =>
                /\ pool' = pool /\ calls' = calls /\ submitted' = submitted
                /\ ret'.cb = FALSE
                /\ ret'.err = (IF cancelled THEN "context canceled" ELSE "queue full")]_vars

\* C8 witness: a queue is full and the last submission was refused as full
C8_Witness ==
    /\ \E k \in Kinds : Len(pool[k]) = QueueCap
    /\ ret.err = "queue full"

(***************************************************************************)
(* Claims about the post-quantum seal                                      *)
(***************************************************************************)

\* the header was verified as it arrived, without passing through sealWithPQ
VerifiedUnsealed == stage = "verified" /\ sealInfo.result = "none"

SealedByAuthorised ==
    /\ sealInfo.result = "ok"
    /\ sealInfo.signer \in snap.Signers
    /\ ecrecover(header) = sealInfo.signer
    /\ \A r \in snap.Recents : r[2] # sealInfo.signer

\* C5: a header sealed by sealWithPQ at a block at or after the fork, by an
\* authorised signer, is accepted by verifyPQSeal: extractPQSignature returns
\* exactly the TLV that was spliced in and the header verifies.
C5_SealedHeaderAccepted ==
    (stage = "verified" /\ SealedByAuthorised) =>
        /\ extractPQSignature(header) = sealInfo.pqSig
        /\ verifyResult = "ok"

CarriesPQSeal == sealInfo.result \in {"ok", "forged"}

\* the ML-DSA library accepts the seal the header carries, for the seal hash
\* of the header
SealVerifies ==
    VerifySignature(GetMLDSAAlgorithm(sealInfo.pqSig), SealHash(header),
                    sealInfo.pqSig.Signature, sealInfo.pqSig.PublicKey) = "ok"

\* C11: in the transition period (dual signing), a header whose PQ seal
\* verifies but whose PQ-derived address differs from the ECDSA-recovered
\* address is rejected for the signer mismatch.
C11_MismatchRejected ==
    (/\ stage = "verified"
     /\ isPQTTransition(header.Number, cfg)
     /\ CarriesPQSeal /\ SealVerifies
     /\ recoverPQSigner(sealInfo.pqSig) # ecrecover(header)) =>
        verifyResult = "PQ signer does not match ECDSA signer"

\* C12: whenever a header at or after the fork carries PQ seal bytes, on
\* checkpoint and other blocks alike, in the transition and in the enforce
\* period, a seal that fails ML-DSA verification makes verifyPQSeal reject
\* the header for the invalid PQ signature.
C12_InvalidSealRejected ==
    (/\ stage = "verified"
     /\ isPQTFork(header.Number, cfg)
     /\ CarriesPQSeal /\ ~SealVerifies) =>
        verifyResult = "PQ signature verification failed"

\* the signer has signed one of the last floor(|signers| / 2) + 1 blocks
\* before block n
SignedRecently(signer, n, sn) ==
    \E r \in sn.Recents :
        r[2] = signer /\ r[1] + (Cardinality(sn.Signers) \div 2 + 1) > n

\* C13: every header verifyPQSeal accepts on the strength of a PQ seal has a
\* PQ signer that is in the authorised signer set of the parent snapshot and
\* has not signed any of the last floor(|signers| / 2) + 1 blocks, at every
\* block number, numbers below that limit included.
C13_AcceptedSignerAuthorisedNotRecent ==
    (/\ stage = "verified"
     /\ verifyResult = "ok"
     /\ isPQTFork(header.Number, cfg)
     /\ ~extractPQSignature(header).err) =>
        LET pqSigner == recoverPQSigner(extractPQSignature(header))
        IN /\ pqSigner \in snap.Signers
           /\ ~SignedRecently(pqSigner, header.Number, snap)

\* the step is a run of sealWithPQ
SealStep == stage = "fresh" /\ stage' = "sealed"

\* length of the signer list of a header, as the snapshot gives it
SignerListLen(h) ==
    IF h.Number % epochLength = 0 THEN AddressLength * Cardinality(snap.Signers) ELSE 0

\* C25: sealing with PQ leaves the ECDSA seal as the final 65 bytes of the
\* extra field and leaves the vanity and the signer-list bytes before it
\* unchanged; the PQ TLV occupies the bytes immediately before the ECDSA seal,
\* after the signer list on checkpoint blocks.
C25_SealKeepsLayout ==
    [][(SealStep /\ sealInfo'.result = "ok")
       => LET old == header.Extra
              new == header'.Extra
              tlv == Encode(sealInfo'.pqSig)
              tlvAt == BLen(new) - extraSeal - BLen(tlv)
          IN /\ BDrop(new, BLen(new) - extraSeal) = BDrop(old, BLen(old) - extraSeal)
             /\ BTake(new, BLen(old) - extraSeal) = BTake(old, BLen(old) - extraSeal)
             /\ BSlice(new, tlvAt, BLen(new) - extraSeal) = tlv
             /\ tlvAt >= extraVanity + SignerListLen(header)]_vars

\* C25 witness: a checkpoint header (signer list) was sealed with a
\* signature shorter than the room reserved for it
C25_Witness ==
    /\ stage = "sealed"
    /\ sealInfo.result = "ok"
    /\ header.Number % epochLength = 0
    /\ lib = "dilithium"
    /\ GetDefaultMLDSAAlgorithm(cfg) = MLDSA65

\* C26: if adding the PQ TLV would make the extra field exceed the maximum,
\* sealing fails with the extra-too-large error and leaves the header as it
\* was; after every successful seal the extra field is at most the maximum.
C26_ExtraTooLarge ==
    [][(SealStep /\ isPQTFork(header.Number, cfg))
       => LET tlv == Encode(SealedPQSignature(sealInfo'.signer, cfg))
          IN /\ BLen(header.Extra) + BLen(tlv) > MaxExtraDataSizePQ
                  => /\ sealInfo'.result = "extraData would exceed maximum size"
                     /\ header' = header
             /\ sealInfo'.result = "ok"
                  => BLen(header'.Extra) <= MaxExtraDataSizePQ]_vars

\* C26 witness: sealing a header close to the maximum failed and left it alone
C26_Witness ==
    /\ stage = "sealed"
    /\ sealInfo.result = "extraData would exceed maximum size"
    /\ BLen(header.Extra) <= MaxExtraDataSizePQ
    /\ BLen(header.Extra) > HugePadding

\* the lengths in the TLV are the signature and public-key sizes of the
\* variant its type byte names
LengthsMatchVariant(pqSig) ==
    /\ BLen(pqSig.Signature) = LibLengths(lib, GetMLDSAAlgorithm(pqSig))[1]
    /\ BLen(pqSig.PublicKey) = LibLengths(lib, GetMLDSAAlgorithm(pqSig))[2]

\* C27: every header that is accepted with a PQ seal has TLV sig_len and
\* pk_len equal to the signature and public-key sizes of the ML-DSA variant
\* named by its type byte; a seal whose lengths do not match its variant is
\* never accepted.
C27_AcceptedSealLengths ==
    (/\ stage = "verified"
     /\ verifyResult = "ok"
     /\ isPQTFork(header.Number, cfg)
     /\ CarriesPQSeal) => LengthsMatchVariant(sealInfo.pqSig)

(***************************************************************************)
(* Claims about the x402 payment engine                                    *)
(***************************************************************************)

\* the k-th verification rule fails for (req, p) in a state view
Fails(k, req, p, bal, used, t) ==
    CASE k = 1 -> p.scheme # "exact"
      [] k = 2 -> p.network # "splendor"
      [] k = 3 -> ~(p.validAfter <= t)
      [] k = 4 -> ~(t <= p.validBefore)
      [] k = 5 -> p.signer # p.from
      [] k = 6 -> ~(bal[p.from] >= p.value)
      [] k = 7 -> p.value # req.maxAmountRequired
      [] k = 8 -> p.to # req.payTo
      [] k = 9 -> <<p.from, p.nonce>> \in used

\* reason is the reason of the earliest failing rule ("none" when none fails)
FirstFailure(reason, req, p, bal, used, t) ==
    IF reason = "none"
    THEN \A k \in 1..9 : ~Fails(k, req, p, bal, used, t)
    ELSE \E k \in 1..9 :
            /\ RuleOrder[k] = reason
            /\ Fails(k, req, p, bal, used, t)
            /\ \A j \in 1..(k - 1) : ~Fails(j, req, p, bal, used, t)

\* this step handles payload p: an x402_verify or x402_settle call with some
\* requirements, or the executor running its transaction
Handles(p) ==
    \/ \E req \in Requirements : x402_verify(req, p) \/ x402_settle(req, p)
    \/ ExecuteTx(p)

Total(bal) == bal["A"] + bal["B"]

\* this step takes a transaction out of the mempool: a step of the executor
ExecStep == BagCardinality(mempool') < BagCardinality(mempool)

\* C2 as stated: once (from, nonce) is in the registry, every later verify,
\* settle or execution of a payload with that pair fails with NonceReused and
\* leaves the balances alone.
C2_ReplayAlwaysNonceReused ==
    [][\A p \in Payloads :
          (<<p.from, p.nonce>> \in registry /\ Handles(p)) =>
              /\ xret'.reason = "NonceReused"
              /\ balance' = balance]_vars

\* C2 amended: each (from, nonce) is settled at most once (the registry only
\* grows, and a successful execution finds the pair absent and records it);
\* once the pair is recorded, every verify or settle (RPC view) and every
\* execution (executor view) of a payload with that pair is refused, a refused
\* call changes neither balances nor registry, and the reason is that of the
\* earliest failing rule: NonceReused when all earlier rules pass, otherwise
\* the earlier rule's reason (Expired, InsufficientBalance, ...).
C2_SettledAtMostOnce ==
    /\ [](\A p \in Payloads :
            <<p.from, p.nonce>> \in registry =>
                /\ verifyExec(p) # "none"
                /\ FirstFailure(verifyExec(p), TxRequirements(p), p, balance, registry, now)
                /\ \A req \in Requirements :
                      /\ verifyRPC(req, p) # "none"
                      /\ FirstFailure(verifyRPC(req, p), req, p, balance,
                                      registry \cup precheck, now))
    /\ [][registry \subseteq registry']_vars
    /\ [][ExecStep =>
            \A p \in Payloads :
                ExecuteTx(p) =>
                    /\ xret'.ok = (verifyExec(p) = "none")
                    /\ xret'.reason = verifyExec(p)
                    /\ xret'.ok => /\ <<p.from, p.nonce>> \notin registry
                                   /\ <<p.from, p.nonce>> \in registry'
                    /\ ~xret'.ok => (balance' = balance /\ registry' = registry)]_vars
    /\ [][(xret'.call \in {"verify", "settle"} /\ xret' # xret) =>
            (balance' = balance /\ registry' = registry)]_vars

\* C2 witness: a second transaction for an already settled pair reached the
\* executor and was refused as a replay
C2_Witness ==
    /\ xret.call = "execute"
    /\ xret.reason = "NonceReused"
    /\ registry # {}

\* C3 as stated: every accepted settlement raises balance(payTo) by value and
\* lowers balance(from) by value, payer and recipient identical or not.
C3_BalancesMoveByValue ==
    [][ExecStep => \A p \in Payloads :
          (ExecuteTx(p) /\ xret'.ok) =>
              /\ balance'[p.to] = balance[p.to] + p.value
              /\ balance'[p.from] = balance[p.from] - p.value]_vars

\* C3 amended: an accepted settlement between two different accounts raises
\* balance(payTo) by value and lowers balance(from) by value; when payer and
\* recipient are the same account its balance is unchanged; in both cases no
\* fee is taken (the total is conserved) and no other account changes.
C3_ExactTransfer ==
    [][ExecStep => \A p \in Payloads :
          (ExecuteTx(p) /\ xret'.ok) =>
              /\ p.from # p.to =>
                    /\ balance'[p.to] = balance[p.to] + p.value
                    /\ balance'[p.from] = balance[p.from] - p.value
              /\ p.from = p.to => balance'[p.from] = balance[p.from]
              /\ \A a \in Accounts \ {p.from, p.to} : balance'[a] = balance[a]
              /\ Total(balance') = Total(balance)]_vars

\* C3 witness: a settlement was accepted and the recipient B holds the value
C3_Witness ==
    /\ xret.call = "execute" /\ xret.ok
    /\ balance["B"] = 1 /\ balance["A"] = InitialFunds - 1

\* C9: a settlement whose re-verification fails (in the executor, or already
\* in x402_settle) returns success = false with the verification's invalid
\* reason, records no nonce and changes no balance; the registry changes only
\* in a step of the executor whose verification succeeded.
C9_FailedSettlementChangesNothing ==
    /\ [][ExecStep =>
            \A p \in Payloads :
                (ExecuteTx(p) /\ ~FirstFailure("none", TxRequirements(p), p, balance,
                                               registry, now)) =>
                    /\ ~xret'.ok /\ xret'.call = "execute"
                    /\ FirstFailure(xret'.reason, TxRequirements(p), p, balance,
                                    registry, now)
                    /\ registry' = registry /\ precheck' = precheck
                    /\ balance' = balance]_vars
    /\ [][(xret'.call = "settle" /\ ~xret'.ok /\ xret' # xret) =>
            /\ xret'.reason # "none"
            /\ registry' = registry /\ precheck' = precheck
            /\ mempool' = mempool
            /\ balance' = balance]_vars
    /\ [][registry' # registry =>
            \E p \in Payloads :
                /\ ExecuteTx(p)
                /\ FirstFailure("none", TxRequirements(p), p, balance, registry, now)
                /\ registry' = registry \cup {<<p.from, p.nonce>>}]_vars

\* C9 witness: the executor refused a transaction whose payload had expired
\* between submission and execution
C9_Witness ==
    /\ xret = [call |-> "execute", ok |-> FALSE, reason |-> "Expired"]
    /\ registry = {}

BigEndianAt(data, off, v) ==
    /\ \A i \in 0..3 : BAt(data, off + i) \in 0..255
    /\ v = ((BAt(data, off) * 256 + BAt(data, off + 1)) * 256
              + BAt(data, off + 2)) * 256 + BAt(data, off + 3)

Genuine(algorithm, message, signature, publicKey) ==
    [alg |-> algorithm, msg |-> message, sig |-> signature, pk |-> publicKey] \in pqSigned

\* the checks C15 lists, in its order, each with the error it names; the last
\* entry is the library's verdict
VerifyChecks(a) ==
    << <<MessageLen(a.message) = 0, "empty message">>,
       <<a.signature = <<>>, "ErrInvalidSignature">>,
       <<a.publicKey = <<>>, "ErrInvalidPublicKey">>,
       <<a.algorithm \notin {MLDSA44, MLDSA65, MLDSA87}, "ErrInvalidAlgorithm">>,
       <<a.algorithm \in {MLDSA44, MLDSA65, MLDSA87} /\
            (BLen(a.signature) # GetMLDSALengths(a.algorithm).sigLen
             \/ BLen(a.publicKey) # GetMLDSALengths(a.algorithm).pkLen),
         "ErrInvalidLength">>,
       <<~Genuine(a.algorithm, a.message, a.signature, a.publicKey),
         "ErrVerificationFailed">> >>

\* C15: VerifySignature returns the first failing check in this order: empty
\* message; empty signature (InvalidSignature); empty public key
\* (InvalidPublicKey); unknown algorithm (InvalidAlgorithm); signature or
\* public-key length different from the variant's size (InvalidLength);
\* cryptographic mismatch (VerificationFailed); and ok only when the library
\* confirms the signature.
C15_FirstFailingCheck ==
    (callOut.fn = "VerifySignature" /\ lib # NotLinked) =>
        LET checks == VerifyChecks(callArgs)
            failing == {i \in 1..Len(checks) : checks[i][1]}
        IN IF failing = {}
           THEN callOut.err = "ok"
           ELSE callOut.err = checks[CHOOSE i \in failing : \A j \in failing : i <= j][2]

\* C15 witness: a call that fails two checks at once (a genuine signature
\* and key of variant 65, presented under an unknown algorithm name, so that
\* the lengths have no variant to match) was answered InvalidAlgorithm
C15_Witness ==
    /\ callOut.fn = "VerifySignature" /\ lib # NotLinked
    /\ Genuine(MLDSA65, callArgs.message, callArgs.signature, callArgs.publicKey)
    /\ callArgs.algorithm = "invalid"
    /\ callOut.err = "ErrInvalidAlgorithm"

\* a call was answered by the build without the PQ library
FallbackCall(fn) == lib = NotLinked /\ callOut.fn = fn

\* C16 (as stated): when the PQ library is not linked, verify, batch_verify,
\* key generation and signing return LibraryUnavailable for every input, no
\* signature is ever reported valid, and the size table answers with static
\* values.
C16_AlwaysLibraryUnavailable ==
    /\ FallbackCall("VerifySignature") => callOut.err = "ErrLibOQSNotAvailable"
    /\ FallbackCall("BatchVerifySignatures") => callOut.r.err = "ErrLibOQSNotAvailable"
    /\ FallbackCall("GenerateKeyPair") => callOut.r.err = "ErrLibOQSNotAvailable"
    /\ FallbackCall("SignMessage") => callOut.r.err = "ErrLibOQSNotAvailable"
    /\ (FallbackCall("GetMLDSALengths") /\ callArgs.algorithm \in DOMAIN FallbackMLDSAParams) =>
          /\ callOut.r.err = "none"
          /\ callOut.r.sigLen = FallbackMLDSAParams[callArgs.algorithm].SignatureSize
          /\ callOut.r.pkLen = FallbackMLDSAParams[callArgs.algorithm].PublicKeySize

\* C16 (amended): when the PQ library is not linked, batch_verify, key
\* generation and signing return LibraryUnavailable for every input; verify
\* never reports a signature valid: it returns the first failing input check
\* (empty message, InvalidSignature, InvalidPublicKey, InvalidAlgorithm,
\* InvalidLength against the static table) and LibraryUnavailable for an input
\* that passes them all; the size table answers with static values.
C16_FallbackNeverValid ==
    /\ FallbackCall("VerifySignature") =>
          LET checks == SubSeq(VerifyChecks(callArgs), 1, 5)
              failing == {i \in 1..5 : checks[i][1]}
          IN /\ callOut.err # "ok"
             /\ IF failing = {}
                THEN callOut.err = "ErrLibOQSNotAvailable"
                ELSE callOut.err = checks[CHOOSE i \in failing : \A j \in failing : i <= j][2]
    /\ FallbackCall("BatchVerifySignatures") =>
          callOut.r = [err |-> "ErrLibOQSNotAvailable", results |-> <<>>]
    /\ FallbackCall("GenerateKeyPair") => callOut.r.err = "ErrLibOQSNotAvailable"
    /\ FallbackCall("SignMessage") => callOut.r.err = "ErrLibOQSNotAvailable"
    /\ (FallbackCall("GetMLDSALengths") /\ callArgs.algorithm \in DOMAIN FallbackMLDSAParams) =>
          /\ callOut.r.err = "none"
          /\ callOut.r.sigLen = FallbackMLDSAParams[callArgs.algorithm].SignatureSize
          /\ callOut.r.pkLen = FallbackMLDSAParams[callArgs.algorithm].PublicKeySize

\* C16 witness: without the library, verify was called with a message, a
\* signature and a key of the static sizes of variant 65 and answered
\* LibraryUnavailable
C16_Witness ==
    /\ FallbackCall("VerifySignature")
    /\ callArgs.algorithm = MLDSA65
    /\ BLen(callArgs.signature) = FallbackMLDSAParams[MLDSA65].SignatureSize
    /\ BLen(callArgs.publicKey) = FallbackMLDSAParams[MLDSA65].PublicKeySize
    /\ callOut.err = "ErrLibOQSNotAvailable"

\* C17: batch_verify fails with LengthMismatch exactly when the messages,
\* signatures and public-keys arrays differ in length; otherwise it returns
\* one boolean per item, in input order, and entry i is true exactly when
\* verify on item i alone returns ok.
C17_BatchAgreesWithVerify ==
    (callOut.fn = "BatchVerifySignatures" /\ lib # NotLinked) =>
        LET a == callArgs
            r == callOut.r
        IN IF Len(a.messages) # Len(a.signatures) \/ Len(a.signatures) # Len(a.publicKeys)
           THEN r.err = "mismatched batch sizes"
           ELSE /\ r.err = "none"
                /\ Len(r.results) = Len(a.messages)
                /\ \A i \in 1..Len(a.messages) :
                      r.results[i] = (VerifySignature(a.algorithm, a.messages[i],
                                                      a.signatures[i], a.publicKeys[i]) = "ok")

\* the batch of callArgs went through an accelerator entry point
AcceleratedHashRun ==
    \/ callOut.fn = "processHashesGPU"
    \/ callOut.fn = "ProcessHashesBatch" /\ gpuType # GPUTypeNone

\* C18: packing a hash batch into fixed slots, running the accelerator entry
\* point and unpacking yields, at every index i whose item is at most 256
\* bytes long, exactly keccak-256 of item i, the digest the CPU path computes;
\* a longer item contributes only its first 256 bytes.
C18_HashParity ==
    AcceleratedHashRun =>
        LET hashes == callArgs.hashes
            results == callOut.r.results
        IN /\ callOut.r.err = "nil"
           /\ Len(results) = Len(hashes)
           /\ \A i \in 1..Len(hashes) :
                 IF BLen(hashes[i]) <= 256
                 THEN /\ results[i] = Keccak256(hashes[i])
                      /\ results[i] = processHashesCPU(hashes).results[i]
                 ELSE results[i] = Keccak256(BTake(hashes[i], 256))

\* C18 witness: a batch of an item that fills its slot exactly and a longer
\* one went through processHashesGPU
C18_Witness ==
    /\ callOut.fn = "processHashesGPU"
    /\ Len(callArgs.hashes) = 2
    /\ BLen(callArgs.hashes[1]) = 256
    /\ BLen(callArgs.hashes[2]) = 257
    /\ callOut.r.results[1] = Keccak256(callArgs.hashes[1])
    /\ callOut.r.results[2] # Keccak256(callArgs.hashes[2])

\* C19: with no accelerator (gpu_type None), a submitted hash batch is
\* computed on the CPU: the callback fires once, with no error, and result i
\* equals keccak-256 of item i for every item within the slot width.
C19_NoAcceleratorCPUHashes ==
    (callOut.fn = "ProcessHashesBatch" /\ gpuType = GPUTypeNone) =>
        LET hashes == callArgs.hashes
            r == callOut.r
        IN /\ r.callbacks = 1
           /\ r.err = "nil"
           /\ Len(r.results) = Len(hashes)
           /\ \A i \in 1..Len(hashes) :
                 BLen(hashes[i]) <= 256 => r.results[i] = Keccak256(hashes[i])

\* the batch of callArgs went through an accelerator entry point
AcceleratedTxRun ==
    \/ callOut.fn = "processTransactionsGPU"
    \/ callOut.fn = "ProcessTransactionsBatch" /\ gpuType # GPUTypeNone

\* C20: for every transaction whose encoding fits the 1024-byte slot, the
\* accelerator path returns, at the same index, a result with valid = true,
\* the transaction's hash and gas_used equal to the transaction's gas limit,
\* the same result as the CPU path.
C20_TxParity ==
    AcceleratedTxRun =>
        LET txs == callArgs.txs
            results == callOut.r.results
        IN /\ Len(results) = Len(txs)
           /\ \A i \in 1..Len(txs) :
                 BLen(MarshalBinary(txs[i])) <= 1024 =>
                    /\ results[i].Valid
                    /\ results[i].Hash = TxHash(txs[i])
                    /\ results[i].GasUsed = txs[i].gas
                    /\ results[i] = processTransactionsCPU(txs).results[i]

\* C20 witness: a transaction that fills its slot exactly, after one that is
\* too long for its slot, came back valid with its gas limit of 90000
C20_Witness ==
    /\ callOut.fn = "processTransactionsGPU"
    /\ Len(callArgs.txs) = 2
    /\ BLen(MarshalBinary(callArgs.txs[1])) > 1024
    /\ BLen(MarshalBinary(callArgs.txs[2])) = 1024
    /\ callArgs.txs[2].gas = 90000
    /\ ~callOut.r.results[1].Valid
    /\ callOut.r.results[2].Valid
    /\ callOut.r.results[2].GasUsed = 90000

(***************************************************************************)
(* Properties of the post-quantum consensus engine                         *)
(***************************************************************************)

\* C22: when the engine has processed block n (VerifyQuantumSafeBlock(n), which
\* runs RotateValidatorKeys(n)), every registered key whose expiry block is
\* <= n has been replaced by a fresh key that expires at n + 100,000, every
\* key with a later expiry is untouched, and the same addresses are registered.
C22_ExpiredKeysRotated ==
    [][(engineRet'.fn = "VerifyQuantumSafeBlock" /\ engineRet'.err = "none")
       => \A v \in DOMAIN validatorKeys :
            LET old == validatorKeys[v]
                new == validatorKeys'[v]
                n == engineRet'.block
            IN /\ (old = NoKey) <=> (new = NoKey)
               /\ (old # NoKey /\ old.ExpiryTime <= n)
                    => /\ new.ExpiryTime = n + PQKeyRotationInterval
                       /\ new.PublicKey # old.PublicKey
               /\ (old # NoKey /\ old.ExpiryTime > n) => new = old]_vars

\* all bytes of s are zero
Zeroed(s) == \A i \in 1..Len(s) : s[i][1] = 0

\* C23 (as stated): after Close no address maps to a key, and every cached
\* shared secret and the random beacon have been zeroed and removed.
C23_CloseWipesAndRemoves ==
    engineRet.fn = "Close"
    => /\ \A v \in DOMAIN validatorKeys : validatorKeys[v] = NoKey
       /\ sharedSecrets = {}
       /\ \A a \in DOMAIN secretMem : Zeroed(secretMem[a])
       /\ randomBeacon = <<>>

\* C23 (amended): after Close no address maps to a key, every cached shared
\* secret has been zeroed and removed, and the random beacon has been zeroed
\* in place: it is still there, 32 zero bytes.
C23_CloseWipes ==
    engineRet.fn = "Close"
    => /\ \A v \in DOMAIN validatorKeys : validatorKeys[v] = NoKey
       /\ sharedSecrets = {}
       /\ \A a \in DOMAIN secretMem : Zeroed(secretMem[a])
       /\ randomBeacon = Bytes(0, 32)

\* Close has just run on an engine that had established a channel with peer 1
\* and had rotated a registered key
C23_Witness ==
    /\ engineRet.fn = "Close"
    /\ secretMem[1] = Bytes(0, 32)
    /\ keyCount >= 3

(***************************************************************************)
(* Properties of the x402 payment signature                                *)
(***************************************************************************)

\* the payload verified last was signed by its payer over the v2 message and
\* passed, at the time of the call, every rule other than the signature rule
SignedV2ByPayer ==
    /\ callOut.fn = "x402_verify"
    /\ callArgs.version = 2
    /\ callArgs.payload.signer = callArgs.payload.from
    /\ \E req \in Requirements :
         verify(req, callArgs.payload, balance, registry \cup precheck, callOut.at) = "none"

\* C24: a payload signed by its payer over the v2 canonical message for
\* chain id c is accepted by a verifier whose chain id is c and is rejected
\* with InvalidSignature by a verifier whose chain id differs.
C24_SignatureBoundToChain ==
    SignedV2ByPayer
    => IF callOut.chainId = callArgs.chainId
       THEN callOut.reason = "none"
       ELSE callOut.reason = "InvalidSignature"

\* signed for chain 1 and verified on chain 1337: rejected
C24_Witness ==
    /\ SignedV2ByPayer
    /\ callArgs.chainId = 1
    /\ callOut.chainId = 1337
    /\ callOut.reason = "InvalidSignature"

(***************************************************************************)
(* Claims about the ML-DSA verify precompile and ValidateMLDSAParams        *)
(***************************************************************************)

\* an input is well formed when it holds the 13 header bytes, a known
\* algorithm id, and exactly the bytes its three declared lengths announce
WellFormed(input) ==
    /\ BLen(input) >= HeaderLen
    /\ BAt(input, 0) \in {68, 101, 135}
    /\ LET m == BigEndianUint32(BSlice(input, 1, 5))
           s == BigEndianUint32(BSlice(input, 5, 9))
           p == BigEndianUint32(BSlice(input, 9, 13))
       IN /\ m.hi < 8192 /\ s.hi < 8192 /\ p.hi < 8192
          /\ HeaderLen + IntU32(m) + IntU32(s) + IntU32(p) = BLen(input)

\* the key owner produced the signature the call carries, and the build can
\* verify it
CallVerifies ==
    /\ lib # NotLinked
    /\ \E g \in pqSigned :
          /\ g.alg = (CASE callArgs.algorithmID = 68 -> MLDSA44
                        [] callArgs.algorithmID = 101 -> MLDSA65
                        [] OTHER -> MLDSA87)
          /\ g.msg = [Raw |-> callArgs.message]
          /\ g.sig = callArgs.signature
          /\ g.pk = callArgs.publicKey

\* C28: Run answers every well-formed input with no error and the 32-byte
\* word 1 (signature verifies) or 0 (it does not), and every malformed input
\* with an error and no output.
C28_RunContract ==
    callOut.fn = "Run" =>
        IF WellFormed(callArgs.input)
        THEN /\ ~callOut.r.panic
             /\ callOut.r.err = "none"
             /\ callOut.r.out = (IF CallVerifies THEN WordTrue ELSE WordFalse)
        ELSE /\ ~callOut.r.panic
             /\ callOut.r.err # "none"
             /\ callOut.r.out = <<>>

\* C29: the gas charged for a well-formed input is
\* 15,000 + 3 x (|signature| + |public key| + |message|).
C29_GasCharged ==
    callOut.fn = "RequiredGas" /\ WellFormed(callArgs.input) =>
        callOut.gas = 15000 + 3 * (BLen(callArgs.signature) + BLen(callArgs.publicKey)
                                   + BLen(callArgs.message))

\* C30: ValidateMLDSAParams succeeds exactly when the algorithm is one of the
\* three variants and both lengths equal the sizes GetMLDSALengths reports;
\* an unknown algorithm gives ErrInvalidAlgorithm, a wrong length
\* ErrInvalidLength.
C30_ValidateExact ==
    callOut.fn = "ValidateMLDSAParams" =>
        LET known == callArgs.algorithm \in {MLDSA44, MLDSA65, MLDSA87}
            l == GetMLDSALengths(callArgs.algorithm)
            fits == /\ BLen(callArgs.signature) = l.sigLen
                    /\ BLen(callArgs.publicKey) = l.pkLen
        IN /\ (callOut.err = "ok") <=> (known /\ fits)
           /\ ~known => callOut.err = "ErrInvalidAlgorithm"
           /\ known /\ ~fits => callOut.err = "ErrInvalidLength"

C30_Witness ==
    /\ callOut.fn = "ValidateMLDSAParams"
    /\ callOut.err = "ok"
    /\ callArgs.algorithm = MLDSA87
    /\ lib = "fips204"
    /\ BLen(callArgs.signature) = 4627

(***************************************************************************)
(* Further claims: precompile totality, key registry, type bytes, phases   *)
(***************************************************************************)

\* C37: for every input byte string, declared lengths whose 32-bit sum wraps
\* included, Run returns either an error or a 32-byte result; it never
\* panics and never slices outside the input.
C37_RunTotal ==
    callOut.fn = "Run" =>
        /\ ~callOut.r.panic
        /\ \/ callOut.r.err # "none" /\ callOut.r.out = <<>>
           \/ callOut.r.err = "none" /\ BLen(callOut.r.out) = 32

\* C38: RegisterValidatorKey accepts a public key of the correct length for
\* each of ML-DSA-44, ML-DSA-65 and ML-DSA-87 and stores it with
\* generated_at = current block and expiry_block = current block + 100,000;
\* it rejects unknown algorithms and public keys of the wrong length.
C38_RegisterAccepts ==
    engineRet.fn = "RegisterValidatorKey" =>
        LET a == engineRet.algorithm
            pk == engineRet.publicKey
            right == /\ a \in {MLDSA44, MLDSA65, MLDSA87}
                     /\ BLen(pk) = GetMLDSALengths(a).pkLen
        IN IF right
           THEN /\ engineRet.err = "none"
                /\ validatorKeys[engineRet.validator] # NoKey
                /\ validatorKeys[engineRet.validator].Algorithm = a
                /\ validatorKeys[engineRet.validator].PublicKey = pk
                /\ validatorKeys[engineRet.validator].KeyGenTime = engineRet.block
                /\ validatorKeys[engineRet.validator].ExpiryTime
                       = engineRet.block + 100000
           ELSE engineRet.err # "none"

\* C33: the seal type byte names the same variant everywhere: 0x01 =
\* ML-DSA-65, 0x02 = ML-DSA-44, 0x03 = ML-DSA-87 in the TLV of a header, and
\* the same in the engine's key registry and bundle verification.
C33_OneTypeTable ==
    /\ GetMLDSAAlgorithm([Type |-> 1]) = MLDSA65
    /\ GetMLDSAAlgorithm([Type |-> 2]) = MLDSA44
    /\ GetMLDSAAlgorithm([Type |-> 3]) = MLDSA87
    /\ \A v \in DOMAIN validatorKeys :
          validatorKeys[v] # NoKey =>
              GetMLDSAAlgorithm([Type |-> validatorKeys[v].SignatureType])
                  = validatorKeys[v].Algorithm
    /\ engineRet.fn = "VerifyPQSignatureBundle" /\ engineRet.err = "none" =>
          GetMLDSAAlgorithm([Type |-> engineRet.bundle.PrimaryType])
              = validatorKeys[engineRet.bundle.ValidatorAddress].Algorithm

\* C40: VerifyPQSignatureBundle never accepts a bundle from a validator
\* without a registry entry, nor one whose key has expired (block past the
\* entry's expiry block); every registry entry has
\* expiry_block = generated_at + 100,000.
C40_RegistryGuardsBundles ==
    /\ engineRet.fn = "VerifyPQSignatureBundle" /\ engineRet.err = "none" =>
          /\ validatorKeys[engineRet.bundle.ValidatorAddress] # NoKey
          /\ engineRet.block <= validatorKeys[engineRet.bundle.ValidatorAddress].ExpiryTime
    /\ \A v \in DOMAIN validatorKeys :
          validatorKeys[v] # NoKey =>
              validatorKeys[v].ExpiryTime = validatorKeys[v].KeyGenTime + 100000

\* C40 witness: a bundle was accepted on the last block of its key's life,
\* while the other validator's key has been rotated
C40_Witness ==
    /\ engineRet.fn = "VerifyPQSignatureBundle"
    /\ engineRet.err = "none"
    /\ engineRet.block = validatorKeys[engineRet.bundle.ValidatorAddress].ExpiryTime
    /\ \E v \in DOMAIN validatorKeys :
          validatorKeys[v] # NoKey /\ validatorKeys[v].KeyGenTime = 100000

\* the phases a set of predicates puts a block in
PhasesOf(p) ==
    {ph \in {"PreFork", "DualSigning", "PostFork"} :
        \/ ph = "PreFork" /\ ~p.fork
        \/ ph = "DualSigning" /\ p.transition
        \/ ph = "PostFork" /\ p.enforced}

\* the phase of block n as the fork schedule defines it, in unbounded
\* arithmetic
ScheduledPhase(n, config) ==
    IF ~config.PostQuantum \/ config.PQTBlock = NilBlock THEN "PreFork"
    ELSE IF LtWide(n, config.PQTBlock) THEN "PreFork"
    ELSE IF LtWide(n, AddBig(config.PQTBlock, transitionBlocksOf(config))) THEN "DualSigning"
    ELSE "PostFork"

PhaseRank(ph) == CASE ph = "PreFork" -> 0 [] ph = "DualSigning" -> 1 [] ph = "PostFork" -> 2

\* the predicates p put the block of callArgs' in exactly its scheduled
\* phase, and not in an earlier phase than the block of callArgs
InPhase(p, q) ==
    /\ PhasesOf(q) = {ScheduledPhase(callArgs'.number, callArgs'.config)}
    /\ callArgs.fn = "phase" =>
          \A a \in PhasesOf(p), b \in PhasesOf(q) : PhaseRank(a) <= PhaseRank(b)

\* C39: for every block number and configuration exactly one phase holds,
\* the scheduled one (PreFork before the fork block or without a fork,
\* DualSigning up to fork_block + transition_blocks, PostFork from there on);
\* the phase never moves backwards as n grows; the consensus hooks and the
\* chain configuration give the same phase.
C39_OnePhase ==
    [][callArgs'.fn = "phase" =>
          /\ InPhase(callOut.clique, callOut'.clique)
          /\ InPhase(callOut.chain, callOut'.chain)
          /\ callOut'.clique = callOut'.chain]_vars

\* C31: a VerifyPQSignatureBundle that runs beside RotateValidatorKeys or
\* RegisterValidatorKey checks the validator against one consistent registry
\* entry: the public key and the expiry block it has used are both those of
\* one entry, never a mix of two.
C31_OneConsistentEntry ==
    bundleCall.pc = "done" /\ bundleCall.key # <<>> =>
        \E x \in bundleCall.seen :
            /\ x.ExpiryTime = bundleCall.expiry
            /\ x.PublicKey = bundleCall.key

\* C34: at start-up the preferred accelerator API is probed and, if that
\* probe fails, the other one; the type and the device count of the first
\* success are recorded, and the type is None only when both probes failed.
C34_ProbeBoth ==
    (callOut # NoCall /\ callArgs.fn = "NewGPUProcessor" /\ callArgs.build # "nogpu") =>
        LET first == IF callArgs.preferredType = GPUTypeOpenCL
                     THEN GPUTypeOpenCL ELSE GPUTypeCUDA
            other == IF first = GPUTypeCUDA THEN GPUTypeOpenCL ELSE GPUTypeCUDA
            found(t) == IF t = GPUTypeCUDA THEN callArgs.cuda ELSE callArgs.opencl
        IN /\ found(first) > 0 =>
                gpuType = first /\ callOut.deviceCount = found(first)
           /\ (found(first) <= 0 /\ found(other) > 0) =>
                gpuType = other /\ callOut.deviceCount = found(other)
           /\ gpuType = GPUTypeNone <=> (callArgs.cuda <= 0 /\ callArgs.opencl <= 0)

\* an empty batch of kind k is submitted in this step
EmptySubmit(k) == (Constructed /\ ProcessBatchEmpty(k)) \/ ProcessBatchStub(k, TRUE)

\* C36: in every build, submitting an empty batch invokes the callback at
\* once, exactly once, with empty results and no error, and enqueues nothing.
C36_EmptyBatch ==
    [][\A k \in Kinds :
          EmptySubmit(k) =>
              /\ ret'.cb /\ ret'.cbErr = "nil" /\ ret'.err = "nil"
              /\ pool' = pool /\ submitted' = submitted /\ calls' = calls]_vars

\* C35: a runtime panic raised while a worker processes a batch does not
\* stop the worker, whatever its kind: the batch is completed (on the CPU
\* path, its callback invoked) and the worker is back at its select, ready
\* for later batches.
C35_WorkerSurvivesPanic ==
    [][\A k \in Kinds, w \in Workers :
          WorkerRun(k, w) =>
              /\ worker'[k][w] = 0
              /\ calls'[k][worker[k][w]] >= 1]_vars

\* what the claim says of item i of a batch: a 65-byte key is used as is, a
\* 64-byte key behind the byte 0x04, any other key makes the item invalid
ClaimedVerdict(batch, i) ==
    LET key == batch.PublicKeys[i]
        sig == BTake(batch.Signatures[i], 64)
    IN CASE BLen(key) = 65 -> cryptoVerifySignature(key, batch.Messages[i], sig)
         [] BLen(key) = 64 ->
                cryptoVerifySignature(BCat(Bytes(4, 1), key), batch.Messages[i], sig)
         [] OTHER -> FALSE

\* C32: in a signature batch every item has the same verdict on the CPU path
\* and on the accelerator path: a 65-byte key is used as is, a 64-byte raw
\* key is verified as 0x04 followed by the key, and a key of any other length
\* makes that item alone invalid.
C32_SignatureParity ==
    callOut.fn = "ProcessSignaturesBatch" =>
        /\ Len(callOut.cpu) = Len(callArgs.batch.Signatures)
        /\ Len(callOut.gpu) = Len(callArgs.batch.Signatures)
        /\ \A i \in 1..Len(callArgs.batch.Signatures) :
              /\ callOut.cpu[i] = callOut.gpu[i]
              /\ callOut.cpu[i] = ClaimedVerdict(callArgs.batch, i)
====
